---- MODULE Spec2Model ----
(***************************************************************************)
(* A model of the audio engine of mhpark03/music: the pitch tables, the    *)
(* oscillators and instrument voices, the envelope, the track renderer,    *)
(* the mixer with its peak normalisation and the 16-bit export, as they    *)
(* are written in                                                          *)
(*   src/music_composer_with_score.py  (module "score"),                   *)
(*   src/music_composer_app.py         (module "app"),                     *)
(*   src/electric_music_composer.py    (module "cli").                     *)
(*                                                                         *)
(* Numbers.  Times, tempos, velocities and volumes are exact rationals     *)
(* [n, d].  The tempos of the model are those for which the program's      *)
(* float64 products are exact or agree with the exact quotient, so int()   *)
(* of the float equals TruncRat of the rational.  The samples of a voice   *)
(* are integers in steps of 1 / AmpUnit: np.sin and np.exp are evaluated   *)
(* in fixed point (AmpRes steps per unit of amplitude, 2 * HalfTurn steps  *)
(* of phase per period) and the products with weights, velocities and the  *)
(* envelope drop the fraction of a step.  The track volume, the mix, the   *)
(* normalisation and the export are exact rational arithmetic on them.     *)
(*                                                                         *)
(* Buffers.  A rendered buffer is kept as the program builds it: its       *)
(* length and the list of slices added into it; Samples(b) is the array.   *)
(***************************************************************************)
EXTENDS Integers, Sequences, FiniteSets, TLC

VARIABLES
    note_tables,    \* NOTE_FREQUENCIES of each of the three modules
    bpm,            \* MusicComposer.bpm
    beat_duration,  \* MusicComposer.beat_duration = 60.0 / bpm
    tracks,         \* the Track objects, by instrument id
    program,        \* the program this process runs: "score", "app" or "cli"
    rng,            \* draws made from numpy's process-wide random generator
    call,           \* the last engine call: its name, arguments and result
    gui,            \* the main window: is_composing, the buttons, the Tk
                    \* variables, current_file, the callbacks posted with after
    editor,         \* the ScoreEditor window, when one is open
    worker,         \* the compose thread: its position and its locals
    player,         \* the file winsound.PlaySound is playing, or NoFile
    files           \* the WAV files on disk, and those open for writing

guiVars == <<gui, editor, worker, player, files>>

\* current_file = None; a file name is the tuple of its parts
NoFile == <<>>

vars == <<note_tables, bpm, beat_duration, tracks, program, rng, call, guiVars>>

\* MusicComposerApp.__init__ of the two windowed programs: the flags, the
\* buttons and the Tk variables as they are made.  track_vars is the set of
\* the instruments whose checkbox is ticked.
NewGui ==
    [is_composing |-> FALSE, compose_btn |-> "normal", play_btn |-> "disabled",
     stop_btn |-> "disabled", style_var |-> "electronic", bars_var |-> 8,
     bpm_var |-> 120, total_beats |-> 32,
     track_vars |-> {"synth", "guitar", "bass", "drums"},
     current_file |-> NoFile, after |-> <<>>, dialog |-> "none"]

\* No ScoreEditor window
NoEditor ==
    [open |-> FALSE, track |-> "none", total_beats |-> 0, selected |-> 0,
     is_dragging |-> FALSE, button |-> "up"]

\* No compose thread
NoWorker ==
    [pc |-> "none", active |-> <<>>, k |-> 0, total_beats |-> 0, style |-> "none",
     pressed |-> <<>>, rendered |-> <<>>, music |-> "none", file |-> NoFile,
     error |-> "none"]

\* The window, before anything is pressed
GuiInit ==
    /\ gui = NewGui
    /\ editor = NoEditor
    /\ worker = NoWorker
    /\ player = NoFile
    /\ files = [exists |-> {}, writing |-> {}]

----------------------------------------------------------------------------
(* Bounds of the model and resolutions of the fixed-point functions.       *)

MaxNotes == 2       \* notes placed on the tracks of one score
HalfTurn == 500     \* phase steps in half a period of the sine
AmpRes == 1000      \* amplitude steps per unit, for np.sin and np.exp

----------------------------------------------------------------------------
(* Exact rationals.                                                        *)

Abs(x) == IF x < 0 THEN -x ELSE x

Min(a, b) == IF a <= b THEN a ELSE b

Max(a, b) == IF a >= b THEN a ELSE b

RECURSIVE GCD(_, _)
GCD(a, b) == IF b = 0 THEN a ELSE GCD(b, a % b)

Rat(n, d) ==
    LET g == GCD(Abs(n), Abs(d))
        s == IF d < 0 THEN -1 ELSE 1
    IN  [n |-> (s * n) \div g, d |-> (s * d) \div g]

RInt(k) == [n |-> k, d |-> 1]

RMul(a, b) ==
    LET g1 == GCD(Abs(a.n), b.d)
        g2 == GCD(Abs(b.n), a.d)
    IN  Rat((a.n \div g1) * (b.n \div g2), (a.d \div g2) * (b.d \div g1))

RDiv(a, b) == RMul(a, IF b.n < 0 THEN [n |-> -b.d, d |-> -b.n] ELSE [n |-> b.d, d |-> b.n])

RAdd(a, b) ==
    LET g == GCD(a.d, b.d)
    IN  Rat(a.n * (b.d \div g) + b.n * (a.d \div g), (a.d \div g) * b.d)

RSub(a, b) == RAdd(a, [n |-> -b.n, d |-> b.d])

RAbs(a) == [n |-> Abs(a.n), d |-> a.d]

RLe(a, b) == RSub(a, b).n <= 0

RLt(a, b) == RSub(a, b).n < 0

RZero == RInt(0)

\* floor(a * b / c) and the remainder, for a, b >= 0 and c > 0, without
\* forming the product a * b.
RECURSIVE MulDivQR(_, _, _)
MulDivQR(a, b, c) ==
    IF b = 0 THEN <<0, 0>>
    ELSE LET h == MulDivQR(a, b \div 2, c)
             r == 2 * h[2] + (IF b % 2 = 1 THEN a % c ELSE 0)
             q == 2 * h[1] + (IF b % 2 = 1 THEN a \div c ELSE 0)
         IN  <<q + r \div c, r % c>>

MulDiv(a, b, c) == MulDivQR(a, b, c)[1]

\* round(x) of Python and numpy: the nearest integer, a tie to the even one.
RoundRat(r) ==
    LET f == (2 * r.n + r.d) \div (2 * r.d)     \* floor(x + 1/2)
    IN  IF (2 * r.n + r.d) % (2 * r.d) = 0 /\ f % 2 = 1 THEN f - 1 ELSE f

\* int(x): Python's conversion of a float to an integer truncates toward 0.
TruncRat(r) == IF r.n >= 0 THEN r.n \div r.d ELSE -((-r.n) \div r.d)

----------------------------------------------------------------------------
(* Program constants.                                                      *)

SAMPLE_RATE == 44100

Modules == {"score", "app", "cli"}

NOTE_NAMES == <<"C", "C#", "D", "D#", "E", "F", "F#", "G", "G#", "A", "A#", "B">>

\* NOTE_FREQUENCIES of the score module: 440.0 * 2 ** (semitones_from_a4 / 12)
\* for the 12 names in the octaves 2..6.  A frequency is kept as
\* hz * 2^(semi/12), the power of two unevaluated.
ScoreEntries_FromC ==
    { [name |-> NOTE_NAMES[i + 1] \o ToString(octave),
       semi |-> (octave - 4) * 12 + i] : i \in 0..11, octave \in 2..6 }

ScoreEntries ==
    { [name |-> NOTE_NAMES[i + 1] \o ToString(octave),
       semi |-> (octave - 4) * 12 + (i - 9)] : i \in 0..11, octave \in 2..6 }

ScoreTable ==
    [ nm \in { e.name : e \in ScoreEntries } |->
        LET e == CHOOSE e \in ScoreEntries : e.name = nm
        IN  [hz |-> RInt(440), semi |-> e.semi] ]

\* NOTE_FREQUENCIES of the app and cli modules: the same hand-written
\* table, in hundredths of a hertz.
HardEntries ==
    << <<"C3", 13081>>, <<"C#3", 13859>>, <<"D3", 14683>>, <<"D#3", 15556>>,
       <<"E3", 16481>>, <<"F3", 17461>>, <<"F#3", 18500>>, <<"G3", 19600>>,
       <<"G#3", 20765>>, <<"A3", 22000>>, <<"A#3", 23308>>, <<"B3", 24694>>,
       <<"C4", 26163>>, <<"C#4", 27718>>, <<"D4", 29366>>, <<"D#4", 31113>>,
       <<"E4", 32963>>, <<"F4", 34923>>, <<"F#4", 36999>>, <<"G4", 39200>>,
       <<"G#4", 41530>>, <<"A4", 44000>>, <<"A#4", 46616>>, <<"B4", 49388>>,
       <<"C5", 52325>>, <<"D5", 58733>>, <<"E5", 65925>>, <<"F5", 69846>>,
       <<"G5", 78399>>, <<"A5", 88000>>, <<"B5", 98777>> >>

HardTable ==
    [ nm \in { HardEntries[k][1] : k \in DOMAIN HardEntries } |->
        LET k == CHOOSE k \in DOMAIN HardEntries : HardEntries[k][1] = nm
        IN  [hz |-> Rat(HardEntries[k][2], 100), semi |-> 0] ]

InitialTables == [m \in Modules |-> IF m = "score" THEN ScoreTable ELSE HardTable]

Hz(x) == [hz |-> RInt(x), semi |-> 0]

\* dict.get(key, default)
DictGet_Subscript(table, key, default) ==
    IF key \in DOMAIN table THEN [ok |-> TRUE, value |-> table[key]]
    ELSE [ok |-> FALSE, value |-> default]      \* table[key]: KeyError

DictGet(table, key, default) ==
    [ok |-> TRUE, value |-> IF key \in DOMAIN table THEN table[key] ELSE default]

\* Note.get_frequency (score), MusicComposer.get_frequency (app, cli)
GetFrequencyOf(m, pitch) == DictGet(note_tables[m], pitch, Hz(440))

\* 2^(k/12) for k = 0..11, in ten-thousandths
Twelfth ==
    <<10000, 10595, 11225, 11892, 12599, 13348, 14142, 14983, 15874, 16818, 17818, 18877>>

RECURSIVE Pow2(_)
Pow2(k) == IF k = 0 THEN 1 ELSE 2 * Pow2(k - 1)

\* The frequency in hundredths of a hertz, rounded down.
CentiHz(f) ==
    LET o == f.semi \div 12
        k == f.semi % 12
        c == (f.hz.n * Twelfth[k + 1]) \div (100 * f.hz.d)
    IN  IF o >= 0 THEN c * Pow2(o) ELSE c \div Pow2(-o)

FreqScale(f, r) == [hz |-> RMul(f.hz, r), semi |-> f.semi]

FreqShift(f, semitones) == [hz |-> f.hz, semi |-> f.semi + semitones]

----------------------------------------------------------------------------
(* np.sin, np.exp and np.random.uniform.  A sample of a voice is an        *)
(* integer number of steps of 1/AmpUnit; a product is taken toward zero.   *)

AmpUnit == 100 * AmpRes

\* a / b toward zero, for b > 0
TDiv(a, b) == IF a >= 0 THEN a \div b ELSE -((-a) \div b)

\* x * r toward zero, for an integer x and a rational r
Scale(x, r) == TDiv(x * r.n, r.d)

\* np.sin(2 * np.pi * x) for x = p / (2 * HalfTurn) periods, in steps of
\* 1/AmpRes: Bhaskara's rational approximation 16q / (5 H^2 - 4q) with
\* q = x(H - x) on each half period (exact at 0, 1/4 and 1/2 period).
SinFix(p) ==
    LET pp == p % (2 * HalfTurn)
        x == pp % HalfTurn
        q == x * (HalfTurn - x)
        v == (16 * q * AmpRes) \div (5 * HalfTurn * HalfTurn - 4 * q)
    IN  IF pp < HalfTurn THEN v ELSE -v

\* np.exp(-m / 1000) in steps of 1/AmpRes: 1 - x + x^2/2 up to x = 0.1, and
\* the square of the value at half the argument above it.
RECURSIVE ExpMilli(_)
ExpMilli(m) ==
    IF m <= 100
    THEN AmpRes - (AmpRes * m) \div 1000 + (AmpRes * m * m) \div 2000000
    ELSE LET h == ExpMilli(m \div 2) IN (h * h) \div AmpRes

\* np.exp(-x) for a rational x >= 0, in steps of 1/AmpRes
ExpNeg(x) == ExpMilli((x.n * 1000) \div x.d)

\* The period of the random generator's stand-in.
RngPeriod == 4

\* The k-th draw of np.random.uniform(-1, 1), in steps of 1/AmpRes: a value
\* of [-1, 1) that is a fixed function of the generator's position.
Uniform(k) == (((k % RngPeriod) * 613 + 297) % (2 * AmpRes)) - AmpRes

\* The generator's position after n draws.
RngAfter(pos, n) == (pos + n) % RngPeriod

\* np.linspace(start, stop, num)[j], the end point included
Linspace(start, stop, num, j) ==
    IF num = 1 THEN RInt(start)
    ELSE Rat(start * (num - 1) + j * (stop - start), num - 1)

\* int(SAMPLE_RATE * duration): the length of np.linspace(0, duration, n, False)
NumSamples_Rounded(duration) == RoundRat(RMul(RInt(SAMPLE_RATE), duration))

NumSamples(duration) == TruncRat(RMul(RInt(SAMPLE_RATE), duration))

\* np.linspace(0, duration, n, False)[i] = i * (duration / n)
TimeAt(duration, n, i) == RMul(Rat(i, n), duration)

\* freq * h * t in periods, for the frequency taken to 1/100 Hz
Turns(freq, h, t) == RMul(RMul(Rat(CentiHz(freq), 100), h), t)

\* The place of n/d periods in the period, in phase steps: the fraction of
\* n/d times 2 * HalfTurn, rounded down (a long fraction is shortened first).
PhaseSteps(n, d) ==
    LET r == n % d
        s == d \div 1000000 + 1
    IN  ((r \div s) * (2 * HalfTurn)) \div ((d + s - 1) \div s)

\* np.sin(2 * np.pi * freq * h * t), in steps of 1/AmpRes
Sine(freq, h, t) ==
    LET x == Turns(freq, h, t)
    IN  SinFix(PhaseSteps(x.n, x.d))

\* np.sign(np.sin(2 * np.pi * freq * t)), by the place in the period
SignOfSine(freq, t) ==
    LET x == Turns(freq, RInt(1), t)
        fr == x.n % x.d
    IN  IF fr = 0 \/ 2 * fr = x.d THEN 0 ELSE IF 2 * fr < x.d THEN 1 ELSE -1

\* 2 * (t * freq - np.floor(0.5 + t * freq)), in steps of 1/AmpUnit
Saw(freq, t) ==
    LET x == Turns(freq, RInt(1), t)
        fl == (2 * x.n + x.d) \div (2 * x.d)
        r == x.n - fl * x.d
        s == x.d \div 10000 + 1
    IN  TDiv(TDiv(r, s) * 2 * AmpUnit, (x.d + s - 1) \div s)

\* np.clip(x, lo, hi)
Clip(x, lo, hi) == IF x < lo THEN lo ELSE IF x > hi THEN hi ELSE x

\* sum of np.sin(2 * np.pi * freq * h * t) * w over the pairs <<h, 100 w>>,
\* in steps of 1/AmpUnit
RECURSIVE Harmonics(_, _, _)
Harmonics(recipe, freq, t) ==
    IF recipe = <<>> THEN 0
    ELSE Sine(freq, Head(recipe)[1], t) * Head(recipe)[2]
         + Harmonics(Tail(recipe), freq, t)

----------------------------------------------------------------------------
(* Synthesizer._apply_envelope                                             *)

AttackSamples(attack) == TruncRat(RMul(attack, RInt(SAMPLE_RATE)))

\* The ramp is written when its length is positive and, in the score and app
\* modules, smaller than the buffer; the cli module has no second test.
RampWritten(m, ramp, samples) == ramp > 0 /\ (m = "cli" \/ ramp < samples)

\* envelope[:a] = np.linspace(0, 1, a) and envelope[-r:] = np.linspace(1, 0, r)
\* raise ValueError when the slice is shorter than the ramp (a ramp of one
\* value is broadcast).
EnvelopeOk(m, samples, attack, release) ==
    LET a == AttackSamples(attack)
        r == AttackSamples(release)
    IN  /\ RampWritten(m, a, samples) => (a <= samples \/ a = 1)
        /\ RampWritten(m, r, samples) => (r <= samples \/ r = 1)

\* envelope[i]: ones, then the attack ramp, then the release ramp over it
EnvelopeAt(m, samples, attack, release, i) ==
    LET a == AttackSamples(attack)
        r == AttackSamples(release)
    IN  IF RampWritten(m, r, samples) /\ i >= samples - r
        THEN Linspace(1, 0, r, i - (samples - r))
        ELSE IF RampWritten(m, a, samples) /\ i < a
        THEN Linspace(0, 1, a, i)
        ELSE RInt(1)

----------------------------------------------------------------------------
(* The voices: Synthesizer, ElectricGuitar, ElectricBass, DrumMachine.     *)
(* A wave is kept as the call that made it; WaveAt(w, i) is wave[i].       *)

EnvelopedVoices ==
    {"sine", "square", "sawtooth", "pad", "clean", "distortion", "finger", "slap"}

DrumVoices == {"kick", "snare", "hihat"}

\* The attack and release each voice passes to _apply_envelope.
VoiceAttack(voice) ==
    CASE voice \in {"sine", "square", "sawtooth"} -> Rat(5, 100)
      [] voice = "pad" -> Rat(3, 10)
      [] voice \in {"clean", "distortion"} -> Rat(1, 100)
      [] voice = "finger" -> Rat(2, 100)
      [] voice = "slap" -> Rat(5, 1000)

VoiceRelease(voice) ==
    CASE voice \in {"sine", "square", "sawtooth", "slap"} -> Rat(1, 10)
      [] voice = "pad" -> Rat(4, 10)
      [] voice = "clean" -> Rat(2, 10)
      [] voice \in {"distortion", "finger"} -> Rat(15, 100)

\* The default duration of each drum, in seconds.
DrumDuration(voice) ==
    CASE voice = "kick" -> Rat(3, 10)
      [] voice = "snare" -> Rat(2, 10)
      [] voice = "hihat" -> Rat(1, 10)

\* The number of values a voice draws from the random generator.
Draws(voice, n) == IF voice \in {"snare", "hihat"} THEN n ELSE 0

\* slap_bass: wave[:attack_samples] *= np.linspace(2, 1, attack_samples),
\* behind "attack_samples < len(wave)" in the app module and bare in cli.
SlapBoostWritten(m, n) == m = "cli" \/ AttackSamples(Rat(2, 100)) < n

SlapBoostOk(m, n) ==
    SlapBoostWritten(m, n) => AttackSamples(Rat(2, 100)) <= n

\* A call of a voice: the module, the voice, its arguments, the length of
\* its time axis and the generator's position when it was called.
Wave(m, voice, freq, duration, velocity, pos) ==
    [module |-> m, voice |-> voice, freq |-> freq, duration |-> duration,
     velocity |-> velocity, len |-> NumSamples(duration), pos |-> pos]

\* The call returns an array (no ValueError on the way).
WaveOk(w) ==
    /\ w.len >= 0
    /\ w.voice \in EnvelopedVoices =>
          EnvelopeOk(w.module, w.len, VoiceAttack(w.voice), VoiceRelease(w.voice))
    /\ w.voice = "slap" => SlapBoostOk(w.module, w.len)

\* The weights of the partials, in hundredths.
PadRecipe == << <<RInt(1), 50>>, <<RInt(2), 25>>, <<Rat(1, 2), 25>> >>

CleanRecipe == << <<RInt(1), 60>>, <<RInt(2), 25>>, <<RInt(3), 10>>, <<RInt(4), 5>> >>

FingerRecipe == << <<RInt(1), 70>>, <<RInt(2), 20>>, <<RInt(3), 10>> >>

SlapRecipe == << <<RInt(1), 50>>, <<RInt(2), 30>>, <<RInt(4), 20>> >>

\* kick: np.cumsum(freq_envelope)[i] with freq_envelope = 150 * np.exp(-t * 20) + 40,
\* in steps of 1/AmpRes Hz
RECURSIVE KickPhase(_, _, _)
KickPhase(duration, n, i) ==
    LET fe == 150 * ExpNeg(RMul(RInt(20), TimeAt(duration, n, i))) + 40 * AmpRes
    IN  IF i = 0 THEN fe ELSE fe + KickPhase(duration, n, i - 1)

RawAt_SquareAtFullLevel(w, i) ==
    Scale(SignOfSine(w.freq, TimeAt(w.duration, w.len, i)) * AmpUnit, w.velocity)

\* The sample before the envelope, in steps of 1/AmpUnit.
RawAt(w, i) ==
    LET t == TimeAt(w.duration, w.len, i)
        f == w.freq
        v == w.velocity
    IN  CASE w.voice = "sine" -> Scale(Sine(f, RInt(1), t) * 100, v)
          [] w.voice = "square" -> Scale(Scale(SignOfSine(f, t) * AmpUnit, v), Rat(1, 2))
          [] w.voice = "sawtooth" -> Scale(Scale(Saw(f, t), v), Rat(1, 2))
          [] w.voice = "pad" -> Scale(Harmonics(PadRecipe, f, t), v)
          [] w.voice = "clean" -> Scale(Harmonics(CleanRecipe, f, t), v)
          [] w.voice = "distortion" ->
                LET a == Clip(Sine(f, RInt(1), t) * 300, -80 * AmpRes, 80 * AmpRes)
                    b == a + Sine(f, RInt(2), t) * 30
                IN  Scale(Scale(Clip(b, -AmpUnit, AmpUnit), v), Rat(7, 10))
          [] w.voice = "finger" -> Scale(Harmonics(FingerRecipe, f, t), v)
          [] w.voice = "slap" ->
                LET a == AttackSamples(Rat(2, 100))
                    h == Harmonics(SlapRecipe, f, t)
                    b == IF SlapBoostWritten(w.module, w.len) /\ i < a
                         THEN Scale(h, Linspace(2, 1, a, i)) ELSE h
                IN  Scale(Clip(b, -AmpUnit, AmpUnit), v)
          [] w.voice = "kick" ->
                LET s == SinFix(PhaseSteps(KickPhase(w.duration, w.len, i),
                                           AmpRes * SAMPLE_RATE))
                IN  Scale(TDiv(s * ExpNeg(RMul(RInt(10), t)) * 100, AmpRes), v)
          [] w.voice = "snare" ->
                LET tone == TDiv(Sine(Hz(200), RInt(1), t) * ExpNeg(RMul(RInt(20), t)) * 100,
                                 AmpRes)
                    noise == TDiv(Uniform(w.pos + i) * ExpNeg(RMul(RInt(15), t)) * 50,
                                  AmpRes)
                IN  Scale(Scale(tone + noise, v), Rat(8, 10))
          [] w.voice = "hihat" ->
                Scale(Scale(TDiv(Uniform(w.pos + i) * ExpNeg(RMul(RInt(30), t)) * 100,
                                 AmpRes), v), Rat(4, 10))

\* wave[i] of the returned array, 0 <= i < w.len, in steps of 1/AmpUnit
WaveAt(w, i) ==
    IF w.voice \in EnvelopedVoices
    THEN Scale(RawAt(w, i),
               EnvelopeAt(w.module, w.len, VoiceAttack(w.voice), VoiceRelease(w.voice), i))
    ELSE RawAt(w, i)

----------------------------------------------------------------------------
(* Note, Track and MusicComposer.render_track of the score module.         *)

TrackIds == <<"synth", "guitar", "bass", "drums">>

\* Track.__init__
NewTrack(instrument_type) ==
    [instrument_type |-> instrument_type, notes |-> <<>>,
     muted |-> FALSE, volume |-> Rat(8, 10)]

\* Note.__init__
NewNote(pitch, start_beat, duration, velocity) ==
    [pitch |-> pitch, start_beat |-> start_beat, duration |-> duration,
     velocity |-> velocity]

\* int(x * beat_duration * SAMPLE_RATE): total_samples and start_sample
SampleIndex_Rounded(beats, bd) == RoundRat(RMul(RMul(RInt(beats), bd), RInt(SAMPLE_RATE)))

SampleIndex(beats, bd) == TruncRat(RMul(RMul(RInt(beats), bd), RInt(SAMPLE_RATE)))

\* freq = note.get_frequency() / 2
BassFrequency_Unchanged(f) == f

BassFrequency(f) == FreqScale(f, Rat(1, 2))

Sounds_KickOnly(track, note) ==
    \/ track.instrument_type \in {"synth", "guitar", "bass"}
    \/ track.instrument_type = "drums" /\ note.pitch = "Kick"

\* The branch of render_track that makes the wave of a note.
Sounds(track, note) ==
    \/ track.instrument_type \in {"synth", "guitar", "bass"}
    \/ track.instrument_type = "drums" /\ note.pitch \in {"Kick", "Snare", "HiHat"}

NoteWave(track, note, bd, pos) ==
    LET duration == RMul(RInt(note.duration), bd)
        f == GetFrequencyOf("score", note.pitch).value
        v == note.velocity
    IN  CASE track.instrument_type = "synth" -> Wave("score", "pad", f, duration, v, pos)
          [] track.instrument_type = "guitar" -> Wave("score", "clean", f, duration, v, pos)
          [] track.instrument_type = "bass" ->
                Wave("score", "finger", BassFrequency(f), duration, v, pos)
          [] note.pitch = "Kick" -> Wave("score", "kick", Hz(0), DrumDuration("kick"), v, pos)
          [] note.pitch = "Snare" -> Wave("score", "snare", Hz(0), DrumDuration("snare"), v, pos)
          [] note.pitch = "HiHat" -> Wave("score", "hihat", Hz(0), DrumDuration("hihat"), v, pos)

\* len(a[lo:hi]) for an array of n values; a negative bound counts from the end
SliceLen(n, lo, hi) ==
    LET l == IF lo < 0 THEN Max(n + lo, 0) ELSE Min(lo, n)
        h == IF hi < 0 THEN Max(n + hi, 0) ELSE Min(hi, n)
    IN  Max(h - l, 0)

\* audio[start:end] += wave[:end - start]: numpy adds arrays of one length,
\* or a single value to any slice, and raises ValueError otherwise.
AddSliceOk(total, start, end, wavelen) ==
    LET tgt == SliceLen(total, start, end)
        src == SliceLen(wavelen, 0, end - start)
    IN  src = tgt \/ src = 1

\* audio[start:end] += wave[:end - start] with end = min(start + len(wave),
\* total).  acc: the slices added so far, the generator's position, and
\* whether an exception ended the call.
AddSlice(acc, total, start, end, w) ==
    [ok |-> AddSliceOk(total, start, end, w.len),
     parts |-> IF AddSliceOk(total, start, end, w.len)
               THEN Append(acc.parts,
                      [start |-> start, wave |-> w, count |-> SliceLen(total, start, end)])
               ELSE acc.parts,
     rng |-> RngAfter(acc.rng, Draws(w.voice, w.len))]

\* One pass of the loop of render_track for a note that sounds: the voice
\* is called, and its wave added at start.
AddNoteWave(acc, total, start, w) ==
    IF ~WaveOk(w) THEN [acc EXCEPT !.ok = FALSE]
    ELSE AddSlice(acc, total, start, Min(start + w.len, total), w)

\* The loop of render_track from note k on.
RECURSIVE RenderNotes(_, _, _, _, _)
RenderNotes(track, k, bd, total, acc) ==
    IF k > Len(track.notes) \/ ~acc.ok THEN acc
    ELSE IF ~Sounds(track, track.notes[k]) THEN RenderNotes(track, k + 1, bd, total, acc)
    ELSE RenderNotes(track, k + 1, bd, total,
            AddNoteWave(acc, total, SampleIndex(track.notes[k].start_beat, bd),
                        NoteWave(track, track.notes[k], bd, acc.rng)))

\* The buffer as built: [ok, len, parts, volume, rng]
Buffer(total, volume, r) ==
    [ok |-> r.ok, len |-> total, parts |-> r.parts, volume |-> volume, rng |-> r.rng]

\* render_track after total_samples is computed
RenderInto(track, bd, total, pos) ==
    Buffer(total, track.volume,
           RenderNotes(track, 1, bd, total, [ok |-> total >= 0, parts |-> <<>>, rng |-> pos]))

\* MusicComposer.render_track
render_track(track, total_beats, bd, pos) ==
    RenderInto(track, bd, SampleIndex(total_beats, bd), pos)

\* audio[i] += x
AddInto_Overwrite(old, x) == x

AddInto(old, x) == old + x

\* audio[i] after the first k slices were added into np.zeros(total_samples)
RECURSIVE SumParts(_, _, _)
SumParts(parts, k, i) ==
    IF k = 0 THEN 0
    ELSE LET p == parts[k]
             prev == SumParts(parts, k - 1, i)
         IN  IF p.start <= i /\ i < p.start + p.count
             THEN AddInto(prev, WaveAt(p.wave, i - p.start))
             ELSE prev

\* (audio * track.volume)[i], exactly
BufferAt(b, i) ==
    Rat(SumParts(b.parts, Len(b.parts), i) * b.volume.n, AmpUnit * b.volume.d)

\* The returned array.
Samples(b) == [i \in 1..b.len |-> BufferAt(b, i - 1)]

----------------------------------------------------------------------------
(* The mixer, its normalisation and the 16-bit export.                     *)

\* The array with the values of f, each computed once.
Array(f) == SubSeq(f, 1, Len(f))

Zeros_Ones(n) == [i \in 1..n |-> RInt(1)]

\* np.zeros(n)
Zeros(n) == [i \in 1..n |-> RZero]

\* np.max(np.abs(mix)), for a mix of at least one sample
Peak(mix) ==
    LET mags == { RAbs(mix[i]) : i \in DOMAIN mix }
    IN  CHOOSE x \in mags : \A y \in mags : RLe(y, x)

PeakLevel_Full == RInt(1)

\* the level a mix is normalised to
PeakLevel == Rat(9, 10)

Normalise_Signed(mix) ==
    LET hi == CHOOSE x \in { mix[i] : i \in DOMAIN mix } :
                  \A y \in { mix[i] : i \in DOMAIN mix } : RLe(y, x)
    IN  IF hi.n > 0 THEN [i \in DOMAIN mix |-> RMul(RDiv(mix[i], hi), PeakLevel)]
        ELSE mix

\* max_val = np.max(np.abs(mix)); if max_val > 0: mix = mix / max_val * 0.9
Normalise(mix) ==
    LET max_val == Peak(mix)
    IN  IF max_val.n > 0
        THEN [i \in DOMAIN mix |-> RMul(RDiv(mix[i], max_val), PeakLevel)]
        ELSE mix

\* pad_to_length(arr, length)[i] and np.pad(...)[:total_samples][i], on a
\* buffer as render_track returns it
PaddedAt(b, i) == IF i < b.len THEN BufferAt(b, i) ELSE RZero

Skipped_Never(track) == FALSE

\* "if not track.muted and track.notes" of compose_from_tracks, negated
Skipped(track) == track.muted \/ track.notes = <<>>

\* mix += track_audio[:total_samples], for the buffer b render_track made
AddTrack(acc, b) ==
    [ok |-> b.ok, inputs |-> IF b.ok THEN Append(acc.inputs, b) ELSE acc.inputs,
     rng |-> b.rng]

\* The loop of compose_from_tracks from track k on.
RECURSIVE MixTracks(_, _, _, _, _)
MixTracks(ts, k, total_beats, bd, acc) ==
    IF k > Len(ts) \/ ~acc.ok THEN acc
    ELSE IF Skipped(ts[k]) THEN MixTracks(ts, k + 1, total_beats, bd, acc)
    ELSE MixTracks(ts, k + 1, total_beats, bd,
                   AddTrack(acc, render_track(ts[k], total_beats, bd, acc.rng)))

RECURSIVE SumInputs(_, _)
SumInputs(inputs, i) ==
    IF inputs = <<>> THEN RZero
    ELSE RAdd(SumInputs(Tail(inputs), i), PaddedAt(Head(inputs), i))

\* The end of compose_from_tracks, for the tracks r the loop has rendered:
\* [ok, len, inputs, rng, rendered, samples]; np.max of an empty mix raises
\* ValueError.
MixDown(total, r) ==
    [ok |-> r.ok /\ total > 0, len |-> total, inputs |-> r.inputs, rng |-> r.rng,
     rendered |-> IF r.ok /\ total > 0
                  THEN [k \in DOMAIN r.inputs |-> Samples(r.inputs[k])] ELSE <<>>,
     samples |-> IF r.ok /\ total > 0
                 THEN Normalise(IF r.inputs = <<>> THEN Zeros(total)
                                ELSE Array([i \in 1..total |-> SumInputs(r.inputs, i - 1)]))
                 ELSE <<>>]

\* compose_from_tracks after total_samples is computed
ComposeInto(ts, total_beats, bd, total, pos) ==
    MixDown(total, MixTracks(ts, 1, total_beats, bd,
                             [ok |-> total >= 0, inputs |-> <<>>, rng |-> pos]))

\* MusicComposer.compose_from_tracks
compose_from_tracks(ts, total_beats, bd, pos) ==
    ComposeInto(ts, total_beats, bd, SampleIndex(total_beats, bd), pos)

ToInt16_Int8(x) == ((x + 128) % 256) - 128

\* astype(np.int16) of a float: the fraction is dropped, and a value outside
\* the 16 bits wraps on the platforms numpy is built for.
ToInt16(x) == ((x + 32768) % 65536) - 32768

Scaled_Rounded(s) == RoundRat(RMul(s, RInt(32767)))

\* int(audio[i] * 32767), before the conversion to 16 bits
Scaled(s) ==
    LET k == MulDiv(Abs(s.n), 32767, s.d)
    IN  IF s.n < 0 THEN -k ELSE k

\* save_wav: audio_int = (audio * 32767).astype(np.int16)
save_wav(audio) == [i \in DOMAIN audio |-> ToInt16(Scaled(audio[i]))]

----------------------------------------------------------------------------
(* The style composer of the app module: MusicComposer.compose and the     *)
(* four track generators.                                                  *)

CHORD_PATTERNS(name) ==
    CASE name = "major" -> <<0, 4, 7>>
      [] name = "minor" -> <<0, 3, 7>>
      [] name = "seventh" -> <<0, 4, 7, 10>>
      [] name = "power" -> <<0, 7, 12>>

\* PROGRESSIONS.get(style, PROGRESSIONS['electronic']): the letters of the
\* roots, all of them in octave 4
Progression(style) ==
    CASE style = "rock" -> <<"E", "A", "B", "E">>
      [] style = "jazz" -> <<"C", "A", "D", "G">>
      [] style = "ambient" -> <<"C", "E", "F", "G">>
      [] style = "ballad" -> <<"G", "D", "E", "C">>
      [] style = "trot" -> <<"A", "D", "E", "A">>
      [] OTHER -> <<"C", "G", "A", "F">>

\* progression[bar % len(progression)]
RootOf(style, bar) == Progression(style)[(bar % Len(Progression(style))) + 1]

\* int(SAMPLE_RATE * bar_duration), bar_duration = beat_duration * 4
BarSamples(bd) == TruncRat(RMul(RInt(SAMPLE_RATE), RMul(bd, RInt(4))))

\* chord_wave[j] of one bar: the voices of the chord added into np.zeros,
\* in steps of 1/AmpUnit
RECURSIVE ChordAt(_, _, _, _, _, _, _)
ChordAt(voice, root_freq, pattern, k, bd, velocity, j) ==
    IF k = 0 THEN 0
    ELSE LET w == Wave("app", voice, FreqShift(root_freq, pattern[k]), RMul(bd, RInt(4)),
                       velocity, 0)
         IN  ChordAt(voice, root_freq, pattern, k - 1, bd, velocity, j)
             + (IF j < w.len THEN WaveAt(w, j) ELSE 0)

\* generate_synth_track(progression, bars, synth_type)[i]
SynthTrackAt(style, synth_type, bd, i) ==
    LET n == BarSamples(bd)
        root_freq == GetFrequencyOf("app", RootOf(style, i \div n) \o "4").value
        velocity == IF synth_type = "pad" THEN Rat(4, 10) ELSE Rat(3, 10)
    IN  Rat(ChordAt(synth_type, root_freq, CHORD_PATTERNS("major"), 3, bd, velocity, i % n),
            3 * AmpUnit)

\* generate_guitar_track(progression, bars, guitar_type)[i]
GuitarTrackAt(style, guitar_type, bd, i) ==
    LET n == BarSamples(bd)
        root_freq == GetFrequencyOf("app", RootOf(style, i \div n) \o "4").value
        pattern == IF guitar_type = "distortion" THEN CHORD_PATTERNS("power")
                   ELSE CHORD_PATTERNS("major")
    IN  Rat(ChordAt(guitar_type, root_freq, pattern, Len(pattern), bd, Rat(4, 10), i % n),
            Len(pattern) * AmpUnit)

\* generate_bass_track(progression, bars, bass_type)[i]: one wave a beat,
\* root.replace('4', '3') an octave down, the third beat at freq * 1.5
BassTrackAt(style, bass_type, bd, i) ==
    LET n == NumSamples(bd)
        k == i \div n
        freq == GetFrequencyOf("app", RootOf(style, k \div 4) \o "3").value
        f == IF k % 4 = 2 THEN FreqScale(freq, Rat(3, 2)) ELSE freq
        velocity == IF k % 4 = 0 THEN Rat(9, 10) ELSE Rat(7, 10)
    IN  Rat(WaveAt(Wave("app", bass_type, f, bd, velocity, 0), i % n), AmpUnit)

Hit(voice, velocity, start) == [voice |-> voice, velocity |-> velocity, start |-> start]

\* The drum calls of one beat of generate_drum_track, in the order made.
HitsOfBeat(style, beat, beat_start, beat_samples, total) ==
    LET offbeat == beat_start + beat_samples \div 2
    IN  CASE style = "ballad" ->
                (IF beat = 0 THEN <<Hit("kick", Rat(6, 10), beat_start)>> ELSE <<>>)
                \o (IF beat = 2 THEN <<Hit("snare", Rat(5, 10), beat_start)>> ELSE <<>>)
                \o <<Hit("hihat", Rat(3, 10), beat_start)>>
          [] style = "trot" ->
                (IF beat \in {0, 2} THEN <<Hit("kick", Rat(9, 10), beat_start)>>
                 ELSE <<Hit("snare", Rat(8, 10), beat_start),
                        Hit("hihat", Rat(7, 10), beat_start)>>)
                \o (IF offbeat < total THEN <<Hit("hihat", Rat(4, 10), offbeat)>> ELSE <<>>)
          [] OTHER ->
                (IF beat \in {0, 2} THEN <<Hit("kick", RInt(1), beat_start)>>
                 ELSE <<Hit("snare", RInt(1), beat_start)>>)
                \o <<Hit("hihat", Rat(6, 10), beat_start), Hit("hihat", Rat(4, 10), offbeat)>>

RECURSIVE HitsFrom(_, _, _, _)
HitsFrom(style, k, beats, beat_samples) ==
    IF k >= beats THEN <<>>
    ELSE HitsOfBeat(style, k % 4, k * beat_samples, beat_samples, beats * beat_samples)
         \o HitsFrom(style, k + 1, beats, beat_samples)

\* drums[start:end_idx] += wave[:end_idx - start] for the hits from k on
RECURSIVE PlaceHits(_, _, _, _)
PlaceHits(hits, k, total, acc) ==
    IF k > Len(hits) \/ ~acc.ok THEN acc
    ELSE PlaceHits(hits, k + 1, total,
            AddNoteWave(acc, total, hits[k].start,
                        Wave("app", hits[k].voice, Hz(0), DrumDuration(hits[k].voice),
                             hits[k].velocity, acc.rng)))

\* generate_drum_track after beat_samples is computed
DrumsInto(bars, style, beat_samples, pos) ==
    Buffer(beat_samples * 4 * bars, RInt(1),
           PlaceHits(HitsFrom(style, 0, 4 * bars, beat_samples), 1, beat_samples * 4 * bars,
                     [ok |-> TRUE, parts |-> <<>>, rng |-> pos]))

\* generate_drum_track(bars, style): [ok, len, parts, volume, rng]
generate_drum_track(bars, style, bd, pos) == DrumsInto(bars, style, NumSamples(bd), pos)

SynthType(style) ==
    IF style \in {"ambient", "electronic", "ballad"} THEN "pad"
    ELSE IF style = "trot" THEN "square" ELSE "sawtooth"

\* The tracks compose makes, in its order: the instrument and its volume.
ComposeTracks(style, instruments) ==
    (IF "synth" \in instruments
     THEN <<[id |-> "synth", vol |-> IF style = "ballad" THEN Rat(35, 100) ELSE Rat(3, 10)]>>
     ELSE <<>>)
    \o (IF "guitar" \in instruments
        THEN <<[id |-> "guitar", vol |-> IF style = "ballad" THEN Rat(35, 100) ELSE Rat(3, 10)]>>
        ELSE <<>>)
    \o (IF "bass" \in instruments THEN <<[id |-> "bass", vol |-> Rat(25, 100)]>> ELSE <<>>)
    \o (IF "drums" \in instruments
        THEN <<[id |-> "drums", vol |-> IF style = "ballad" THEN Rat(25, 100) ELSE Rat(35, 100)]>>
        ELSE <<>>)

\* The array a generator returns.
TrackAudio(id, style, bars, bd, drums) ==
    CASE id = "synth" ->
            [i \in 1..(bars * BarSamples(bd)) |-> SynthTrackAt(style, SynthType(style), bd, i - 1)]
      [] id = "guitar" ->
            [i \in 1..(bars * BarSamples(bd)) |->
                GuitarTrackAt(style, IF style = "rock" THEN "distortion" ELSE "clean", bd, i - 1)]
      [] id = "bass" ->
            [i \in 1..(4 * bars * NumSamples(bd)) |->
                BassTrackAt(style, IF style = "jazz" THEN "slap" ELSE "finger", bd, i - 1)]
      [] id = "drums" ->
            [i \in 1..drums.len |-> Rat(SumParts(drums.parts, Len(drums.parts), i - 1), AmpUnit)]

\* sum of pad_to_length(track, total_samples)[i] * vol over the tracks
RECURSIVE MixAt(_, _, _, _)
MixAt(audio, made, k, i) ==
    IF k = 0 THEN RZero
    ELSE RAdd(MixAt(audio, made, k - 1, i),
              IF i <= Len(audio[k]) THEN RMul(audio[k][i], made[k].vol) ELSE RZero)

\* The end of compose, for the arrays the generators returned:
\* [ok, len, rendered, rng, samples]
MixStyle(total, made, audio, rng_after) ==
    [ok |-> TRUE, len |-> total, rendered |-> audio, rng |-> rng_after,
     samples |-> IF made = <<>> THEN Zeros(total)
                 ELSE Normalise(Array([i \in 1..total |-> MixAt(audio, made, Len(made), i)]))]

\* compose after the drum track is generated; an exception in the generator
\* or in np.max of an empty mix ends the call
ComposeStyle(style, bars, bd, total, made, drums) ==
    IF drums.ok /\ total >= 0 /\ (made # <<>> => total > 0)
    THEN MixStyle(total, made,
                  Array([k \in DOMAIN made |->
                            Array(TrackAudio(made[k].id, style, bars, bd, drums))]),
                  drums.rng)
    ELSE [ok |-> FALSE, len |-> total, rendered |-> <<>>, rng |-> drums.rng,
          samples |-> <<>>]

\* MusicComposer.compose of the app module
compose(style, instruments, bars, bd, pos) ==
    ComposeStyle(style, bars, bd,
                 TruncRat(RMul(RMul(RInt(SAMPLE_RATE), RMul(bd, RInt(4))), RInt(bars))),
                 ComposeTracks(style, instruments),
                 IF "drums" \in instruments THEN generate_drum_track(bars, style, bd, pos)
                 ELSE Buffer(0, RInt(1), [ok |-> TRUE, parts |-> <<>>, rng |-> pos]))

----------------------------------------------------------------------------
(* The score program: its tracks, and the calls of its composer.           *)

\* Tempos at which a beat is 2 and 2.5 samples long: the buffers of a few
\* beats are short enough to be compared sample by sample.
TinyTempos == {1323000, 1058400}

\* total_beats of the calls
BeatCounts == {1, 2}

\* The notes a track is given, by instrument: inside the buffer, across its
\* end and at its end; a drum name render_track does not know.
NoteMenu(id) ==
    CASE id = "synth" ->
            { NewNote("A4", 0, 2, Rat(8, 10)), NewNote("A4", 1, 2, Rat(1, 2)) }
      [] id = "guitar" -> {}
      [] id = "bass" -> { NewNote("A4", 0, 2, Rat(8, 10)) }
      [] id = "drums" ->
            { NewNote("Kick", 0, 1, Rat(8, 10)), NewNote("Snare", 1, 1, Rat(8, 10)),
              NewNote("Tom", 0, 1, Rat(8, 10)) }

TrackIdSet == { TrackIds[k] : k \in DOMAIN TrackIds }

RECURSIVE NoteCount(_, _)
NoteCount(ts, k) == IF k = 0 THEN 0 ELSE Len(ts[TrackIds[k]].notes) + NoteCount(ts, k - 1)

\* The tracks of the score, in the order of self.tracks
TrackList == [k \in DOMAIN TrackIds |-> tracks[TrackIds[k]]]

\* MusicComposer.set_bpm
SetBpm(b) ==
    /\ bpm' = b
    /\ beat_duration' = Rat(60, b)
    /\ call' = [op |-> "set_bpm", bpm |-> b]
    /\ UNCHANGED <<note_tables, tracks, program, rng, guiVars>>

\* Track.add_note
AddNote(id, note) ==
    /\ program = "score"
    /\ NoteCount(tracks, Len(TrackIds)) < MaxNotes
    /\ tracks' = [tracks EXCEPT ![id].notes = Append(@, note)]
    /\ call' = [op |-> "add_note", id |-> id]
    /\ UNCHANGED <<note_tables, bpm, beat_duration, program, rng, guiVars>>

\* track.muted = flag, on a track that holds notes
SetMuted(id, flag) ==
    /\ program = "score"
    /\ tracks[id].notes # <<>>
    /\ tracks[id].muted # flag
    /\ tracks' = [tracks EXCEPT ![id].muted = flag]
    /\ call' = [op |-> "set_muted", id |-> id]
    /\ UNCHANGED <<note_tables, bpm, beat_duration, program, rng, guiVars>>

RenderTrack_Consuming(id, total_beats) ==
    /\ program = "score"
    /\ call' = [op |-> "render_track", module |-> "score", track |-> tracks[id],
                total_beats |-> total_beats, bpm |-> bpm, bd |-> beat_duration,
                result |-> render_track(tracks[id], total_beats, beat_duration, rng)]
    /\ rng' = call'.result.rng
    /\ tracks' = [tracks EXCEPT ![id].notes = <<>>]
    /\ UNCHANGED <<note_tables, bpm, beat_duration, program, guiVars>>

\* composer.render_track(track, total_beats)
RenderTrack(id, total_beats) ==
    /\ program = "score"
    /\ call' = [op |-> "render_track", module |-> "score", track |-> tracks[id],
                total_beats |-> total_beats, bpm |-> bpm, bd |-> beat_duration,
                result |-> render_track(tracks[id], total_beats, beat_duration, rng)]
    /\ rng' = call'.result.rng
    /\ UNCHANGED <<note_tables, bpm, beat_duration, tracks, program, guiVars>>

\* composer.compose_from_tracks(ts, total_beats)
ComposeFromTracks(ts, total_beats) ==
    /\ program = "score"
    /\ call' = [op |-> "compose_from_tracks", module |-> "score",
                tracks |-> ts, total_beats |-> total_beats, bpm |-> bpm,
                bd |-> beat_duration,
                result |-> compose_from_tracks(ts, total_beats, beat_duration, rng)]
    /\ rng' = call'.result.rng
    /\ UNCHANGED <<note_tables, bpm, beat_duration, tracks, program, guiVars>>

\* The styles and the instrument choices of the composing dialog; "disco"
\* is a style the tables do not know.
Styles == {"electronic", "rock", "jazz", "ballad", "trot", "disco"}

InstrumentChoices == { {}, {"synth", "bass"}, {"guitar", "drums"} }

BarCounts == {1}

\* composer.compose(style, instruments, bars) of the app module
Compose(style, instruments, bars) ==
    /\ program = "app"
    /\ call' = [op |-> "compose", module |-> "app", style |-> style,
                instruments |-> instruments, bars |-> bars, bpm |-> bpm,
                bd |-> beat_duration,
                result |-> compose(style, instruments, bars, beat_duration, rng)]
    /\ rng' = call'.result.rng
    /\ UNCHANGED <<note_tables, bpm, beat_duration, tracks, program, guiVars>>

\* composer.save_wav(audio, filename) on the mix a compose call returned
SaveWav ==
    /\ call.op \in {"compose_from_tracks", "compose"}
    /\ call.result.ok
    /\ call' = [op |-> "save_wav", module |-> call.module,
                audio |-> call.result.samples, pcm |-> save_wav(call.result.samples)]
    /\ UNCHANGED <<note_tables, bpm, beat_duration, tracks, program, rng, guiVars>>

Init ==
    /\ note_tables = InitialTables
    /\ program \in {"score", "app"}
    /\ bpm \in TinyTempos
    /\ beat_duration = Rat(60, bpm)
    /\ tracks = [id \in TrackIdSet |-> NewTrack(id)]
    /\ rng = 0
    /\ call = [op |-> "init"]
    /\ GuiInit

Next ==
    \/ \E b \in TinyTempos : SetBpm(b)
    \/ \E id \in TrackIdSet : \E note \in NoteMenu(id) : AddNote(id, note)
    \/ \E id \in TrackIdSet : \E flag \in BOOLEAN : SetMuted(id, flag)
    \/ \E id \in TrackIdSet : \E n \in BeatCounts : RenderTrack(id, n)
    \/ \E ts \in {TrackList, <<>>} : \E n \in BeatCounts : ComposeFromTracks(ts, n)
    \/ \E style \in Styles : \E instruments \in InstrumentChoices : \E bars \in BarCounts :
          Compose(style, instruments, bars)
    \/ SaveWav

Spec == Init /\ [][Next]_vars

----------------------------------------------------------------------------
(* Properties of the mixer, the export and the track renderer, on buffers  *)
(* short enough to be compared sample by sample.                           *)

\* track.notes without the notes render_track passes over
SoundingNotes(track) == SelectSeq(track.notes, LAMBDA note : Sounds(track, note))

\* Some sample of some array of the list is not zero.
NonSilent(arrays) ==
    \E k \in DOMAIN arrays : \E i \in DOMAIN arrays[k] : arrays[k][i].n # 0

\* C4: after mixing and normalisation (compose_from_tracks, and compose of
\* the style composer) the peak absolute amplitude of the returned buffer is
\* 0.9 when some input track buffer is non-silent, and every sample is
\* exactly 0 when all of them are silent.
MixPeakIsNineTenths ==
    (call.op \in {"compose_from_tracks", "compose"} /\ call.result.ok)
        => LET r == call.result
           IN  IF NonSilent(r.rendered)
               THEN Peak(r.samples) = [n |-> 9, d |-> 10]
               ELSE \A i \in DOMAIN r.samples : r.samples[i] = [n |-> 0, d |-> 1]

\* Two tracks that sound have been mixed, and a sample below the peak is
\* left in the mix.
TwoTracksMixedToPeak ==
    /\ call.op = "compose_from_tracks"
    /\ call.result.ok
    /\ Len(call.result.rendered) >= 2
    /\ \A k \in DOMAIN call.result.rendered : NonSilent(<<call.result.rendered[k]>>)
    /\ Peak(call.result.samples) = [n |-> 9, d |-> 10]
    /\ \E i \in DOMAIN call.result.samples :
          /\ call.result.samples[i].n # 0
          /\ RLt(RAbs(call.result.samples[i]), Rat(9, 10))

\* C5: every sample of the buffer compose_from_tracks or compose returns is
\* at most 0.9 in absolute value, so the value sample * 32767 that save_wav
\* converts lies in the signed 16-bit range and is stored unchanged.
ExportNeverClips ==
    /\ (call.op \in {"compose_from_tracks", "compose"} /\ call.result.ok)
          => \A i \in DOMAIN call.result.samples :
                RLe(RAbs(call.result.samples[i]), [n |-> 9, d |-> 10])
    /\ call.op = "save_wav"
          => /\ DOMAIN call.pcm = DOMAIN call.audio
             /\ \A i \in DOMAIN call.audio :
                   /\ RLe(RAbs(call.audio[i]), [n |-> 9, d |-> 10])
                   /\ Scaled(call.audio[i]) \in -32768..32767
                   /\ call.pcm[i] = Scaled(call.audio[i])

\* A mix at its peak has been exported: 0.9 * 32767 is stored as 29490.
PeakExported ==
    /\ call.op = "save_wav"
    /\ \E i \in DOMAIN call.pcm : Abs(call.pcm[i]) = 29490
    /\ \E i \in DOMAIN call.pcm : call.pcm[i] \notin {0, 29490, -29490}

\* wave[i - start] of a slice that covers sample i, in steps of 1/AmpUnit
Contribution(p, i) ==
    IF p.start <= i /\ i < p.start + p.count THEN WaveAt(p.wave, i - p.start) ELSE 0

\* The sum of the contributions of the slices S to sample i
RECURSIVE SumOver(_, _, _)
SumOver(parts, S, i) ==
    IF S = {} THEN 0
    ELSE LET k == CHOOSE x \in S : \A y \in S : y <= x
         IN  Contribution(parts[k], i) + SumOver(parts, S \ {k}, i)

Reverse(s) == [k \in DOMAIN s |-> s[Len(s) + 1 - k]]

\* Two calls of render_track returned the same array.
SameBuffer(b, back) == back.ok /\ back.len = b.len /\ Samples(back) = Samples(b)

MutedOrEmptyRendersSilent ==
    (call.op = "render_track" /\ (call.track.muted \/ call.track.notes = <<>>))
        => /\ call.result.ok
           /\ call.result.len = SampleIndex(call.total_beats, call.bd)
           /\ \A i \in 0..(call.result.len - 1) :
                 BufferAt(call.result, i) = [n |-> 0, d |-> 1]

\* C8, amended: a track with no notes renders through render_track as an
\* all-zero buffer of the full track length; render_track does not read
\* muted, and a muted track is silent in the mix because compose_from_tracks
\* renders only the tracks that are not muted and hold notes.
MutedIsLeftOutOfTheMix ==
    /\ (call.op = "render_track" /\ call.track.notes = <<>>)
          => /\ call.result.ok
             /\ call.result.len = SampleIndex(call.total_beats, call.bd)
             /\ call.result.parts = <<>>
             /\ \A i \in 0..(call.result.len - 1) :
                   BufferAt(call.result, i) = [n |-> 0, d |-> 1]
    /\ (call.op = "render_track" /\ call.track.muted /\ call.result.ok)
          => Len(call.result.parts) = Len(SoundingNotes(call.track))
    /\ (call.op = "compose_from_tracks" /\ call.result.ok)
          => LET mixed == SelectSeq(call.tracks,
                                    LAMBDA t : ~t.muted /\ t.notes # <<>>)
             IN  /\ Len(call.result.inputs) = Len(mixed)
                 /\ \A k \in DOMAIN mixed :
                       /\ call.result.inputs[k].volume = mixed[k].volume
                       /\ Len(call.result.inputs[k].parts) = Len(SoundingNotes(mixed[k]))

\* A muted track that holds a note was rendered, and the buffer sounds.
MutedTrackRenderedAloud ==
    /\ call.op = "render_track"
    /\ call.track.muted
    /\ call.result.ok
    /\ \E i \in 0..(call.result.len - 1) : BufferAt(call.result, i).n # 0

\* C9: when the track list is empty or every track of it is muted or holds
\* no notes (compose_from_tracks), or no instrument is chosen (compose of
\* the style composer), the call returns without error an all-zero buffer
\* of the full length: floor(beats * (60 / bpm) * 44100) samples.
NothingToMixIsSilence ==
    /\ (/\ call.op = "compose_from_tracks"
        /\ \A k \in DOMAIN call.tracks :
              call.tracks[k].muted \/ call.tracks[k].notes = <<>>)
          => LET n == Len(call.result.samples)
             IN  /\ call.result.ok
                 /\ n * call.bpm <= call.total_beats * 60 * 44100
                 /\ call.total_beats * 60 * 44100 < (n + 1) * call.bpm
                 /\ \A i \in 1..n : call.result.samples[i] = [n |-> 0, d |-> 1]
    /\ (call.op = "compose" /\ call.instruments = {})
          => LET n == Len(call.result.samples)
             IN  /\ call.result.ok
                 /\ n * call.bpm <= call.bars * 4 * 60 * 44100
                 /\ call.bars * 4 * 60 * 44100 < (n + 1) * call.bpm
                 /\ \A i \in 1..n : call.result.samples[i] = [n |-> 0, d |-> 1]

\* The only track that holds notes is muted, and the mix came back silent
\* and five samples long.
AllMutedComposed ==
    /\ call.op = "compose_from_tracks"
    /\ \E k \in DOMAIN call.tracks : call.tracks[k].muted /\ call.tracks[k].notes # <<>>
    /\ \A k \in DOMAIN call.tracks : call.tracks[k].muted \/ call.tracks[k].notes = <<>>
    /\ call.result.ok
    /\ Len(call.result.samples) = 5

----------------------------------------------------------------------------
(* The pitch resolvers alone: every module, known and unknown symbols.     *)

\* The 60 names of the score table, and symbols outside one table or all.
PitchInputs ==
    DOMAIN ScoreTable \cup {"H9", "C7", "A1", "Kick", "a4", "Bb4", ""}

\* Note.get_frequency (score), MusicComposer.get_frequency (app, cli)
GetFrequency(pitch) ==
    /\ call' = [op |-> "get_frequency", module |-> program, pitch |-> pitch,
                ok |-> GetFrequencyOf(program, pitch).ok,
                value |-> GetFrequencyOf(program, pitch).value]
    /\ UNCHANGED <<note_tables, bpm, beat_duration, tracks, program, rng, guiVars>>

InitPitch ==
    /\ note_tables = InitialTables
    /\ program \in Modules
    /\ bpm = 120
    /\ beat_duration = Rat(60, bpm)
    /\ tracks = [id \in TrackIdSet |-> NewTrack(id)]
    /\ rng = 0
    /\ call = [op |-> "init"]
    /\ GuiInit

NextPitch == \E pitch \in PitchInputs : GetFrequency(pitch)

SpecPitch == InitPitch /\ [][NextPitch]_vars

\* C10: resolving a pitch symbol that is not in the module's note table
\* does not raise and gives exactly 440 Hz, and no table is changed by it.
UnknownPitchResolvesTo440 ==
    (call.op = "get_frequency" /\ call.pitch \notin DOMAIN InitialTables[call.module])
        => /\ call.ok
           /\ call.value = [hz |-> [n |-> 440, d |-> 1], semi |-> 0]
           /\ note_tables = InitialTables

\* A sharp of octave 5, which the hand-written table of the app module lacks,
\* has been looked up there.
UnknownPitchLookedUp ==
    /\ call.op = "get_frequency"
    /\ call.module = "app"
    /\ call.pitch = "C#5"
    /\ call.pitch \notin DOMAIN note_tables["app"]
    /\ call.ok

----------------------------------------------------------------------------
(* The oscillators alone: every module, note lengths of real tempos and    *)
(* lengths shorter than the envelope's ramps.                              *)

Oscillators == {"sine", "square", "sawtooth", "pad"}

\* In seconds: a beat at 120, 128, 160 and 64 BPM, two seconds, and 10 ms,
\* 300 ms and two samples, which are shorter than a ramp; 442/4419 s and
\* 3529/8822 s, which are 0.02 ms longer than the release of the
\* oscillators (0.1 s) and of the pad (0.4 s).
OscDurations ==
    { Rat(1, 2), Rat(15, 32), Rat(3, 8), Rat(15, 16), RInt(2),
      Rat(1, 100), Rat(3, 10), Rat(1, 22050), Rat(442, 4419), Rat(3529, 8822) }

OscFrequencies == { Hz(440), Hz(220) }

OscVelocities == { RInt(1), Rat(8, 10), RZero }

\* Synthesizer.sine_wave, square_wave, sawtooth_wave, pad_sound
Oscillate(voice, freq, duration, velocity) ==
    /\ call' = [op |-> "oscillator", module |-> program,
                wave |-> Wave(program, voice, freq, duration, velocity, rng),
                ok |-> WaveOk(Wave(program, voice, freq, duration, velocity, rng)),
                len |-> NumSamples(duration)]
    /\ UNCHANGED <<note_tables, bpm, beat_duration, tracks, program, rng, guiVars>>

NextOsc ==
    \E voice \in Oscillators : \E freq \in OscFrequencies :
        \E duration \in OscDurations : \E velocity \in OscVelocities :
            Oscillate(voice, freq, duration, velocity)

SpecOsc == InitPitch /\ [][NextOsc]_vars

\* C1 as stated: every oscillator call returns round(duration * 44100)
\* samples, the nearest integer.
OscillatorLengthIsRounded ==
    call.op = "oscillator"
        => /\ call.ok
           /\ call.len = RoundRat(RMul(call.wave.duration, RInt(44100)))

\* C1, amended: a returned oscillator buffer has floor(duration * 44100)
\* samples: n samples with n <= duration * 44100 < n + 1.  The score and app
\* modules return for every duration > 0; the cli module raises exactly
\* when the buffer is shorter than a ramp of the envelope.
OscillatorLengthIsTruncated ==
    call.op = "oscillator"
        => LET d == call.wave.duration
               short == call.len < 4410
                        \/ (call.wave.voice = "pad" /\ call.len < 17640)
           IN  /\ call.len * d.d <= 44100 * d.n
               /\ 44100 * d.n < (call.len + 1) * d.d
               /\ call.ok <=> ~(call.module = "cli" /\ short)

\* A beat at 128 BPM, 20671.875 samples, came back 20671 samples long.
OscillatorLengthRoundedDown ==
    /\ call.op = "oscillator"
    /\ call.ok
    /\ call.wave.duration = [n |-> 15, d |-> 32]
    /\ call.len = 20671

----------------------------------------------------------------------------
(* The track renderer at the tempos of the tempo slider for which          *)
(* 60.0 / bpm and its products with small integers are exact in float64.   *)

RealTempos == {60, 64, 80, 96, 120, 128, 160}

RealBeatCounts == {4, 8}

\* The notes of the tracks: inside the buffer and past its end, and notes
\* of length 0 and -1, which Note.__init__ accepts.
TempoMenu(id) ==
    CASE id = "synth" ->
            { NewNote("C4", 1, 1, Rat(8, 10)), NewNote("A4", 3, 2, Rat(8, 10)),
              NewNote("A4", 0, 0, Rat(8, 10)) }
      [] id = "guitar" ->
            { NewNote("E4", 0, 4, Rat(8, 10)), NewNote("E4", 5, 4, Rat(8, 10)),
              NewNote("E4", 1, -1, Rat(8, 10)) }
      [] id = "bass" -> { NewNote("A4", 2, 1, Rat(8, 10)), NewNote("C3", 1, 2, Rat(8, 10)) }
      [] id = "drums" -> { NewNote("Kick", 3, 1, Rat(8, 10)), NewNote("Snare", 7, 1, Rat(8, 10)) }

InitTempo ==
    /\ note_tables = InitialTables
    /\ program = "score"
    /\ bpm \in RealTempos
    /\ beat_duration = Rat(60, bpm)
    /\ tracks = [id \in TrackIdSet |-> NewTrack(id)]
    /\ rng = 0
    /\ call = [op |-> "init"]
    /\ GuiInit

NextTempo ==
    \/ \E b \in RealTempos : SetBpm(b)
    \/ \E id \in TrackIdSet : \E note \in TempoMenu(id) : AddNote(id, note)
    \/ \E id \in TrackIdSet : \E n \in RealBeatCounts : RenderTrack(id, n)

SpecTempo == InitTempo /\ [][NextTempo]_vars

\* C2 as stated: render_track allocates round(total_beats * beat_seconds *
\* 44100) samples and places each note at round(start_beat * beat_seconds *
\* 44100).
RenderIndicesAreRounded ==
    (call.op = "render_track" /\ call.result.ok)
        => LET notes == SoundingNotes(call.track)
           IN  /\ call.result.len = RoundRat(Rat(call.total_beats * 60 * 44100, call.bpm))
               /\ \A k \in DOMAIN call.result.parts :
                     call.result.parts[k].start
                         = RoundRat(Rat(notes[k].start_beat * 60 * 44100, call.bpm))

\* C2, amended: render_track allocates floor(total_beats * beat_seconds *
\* 44100) samples and places each note at floor(start_beat * beat_seconds *
\* 44100): the largest sample index not above the product.
RenderIndicesAreTruncated ==
    (call.op = "render_track" /\ call.result.ok)
        => LET notes == SoundingNotes(call.track)
               len == call.result.len
           IN  /\ len * call.bpm <= call.total_beats * 60 * 44100
               /\ call.total_beats * 60 * 44100 < (len + 1) * call.bpm
               /\ Len(call.result.parts) = Len(notes)
               /\ \A k \in DOMAIN notes :
                     LET start == call.result.parts[k].start
                     IN  /\ start * call.bpm <= notes[k].start_beat * 60 * 44100
                         /\ notes[k].start_beat * 60 * 44100 < (start + 1) * call.bpm

\* At 128 BPM a note on beat 1 was placed at sample 20671 of the 20671.875
\* the product gives.
RenderPlacedBelowProduct ==
    /\ call.op = "render_track"
    /\ call.result.ok
    /\ call.bpm = 128
    /\ \E k \in DOMAIN call.result.parts :
          /\ call.track.notes[k].start_beat = 1
          /\ call.result.parts[k].start = 20671

\* C3: at 120 BPM the note A4 on beat 2 of length 1 of a bass track is
\* rendered from sample 44100 on, 22050 samples long, at 220 Hz.
BassNoteAt120 ==
    (call.op = "render_track" /\ call.bpm = 120 /\ call.track.instrument_type = "bass")
        => /\ call.result.ok
           /\ \A k \in DOMAIN call.track.notes :
                 LET note == call.track.notes[k]
                     part == call.result.parts[k]
                 IN  (note.pitch = "A4" /\ note.start_beat = 2 /\ note.duration = 1)
                         => /\ part.start = 44100
                            /\ part.wave.len = 22050
                            /\ part.count = 22050
                            /\ part.wave.voice = "finger"
                            /\ CentiHz(part.wave.freq) = 22000

\* The bass track holding that note has been rendered at 120 BPM.
BassNoteRenderedAt120 ==
    /\ call.op = "render_track"
    /\ call.bpm = 120
    /\ call.track.instrument_type = "bass"
    /\ call.result.ok
    /\ \E k \in DOMAIN call.track.notes :
          /\ call.track.notes[k] = NewNote("A4", 2, 1, Rat(8, 10))
          /\ call.result.parts[k].start = 44100

\* C7 as stated: render_track completes without an error and returns a
\* buffer of the allocated length for every track whose notes have
\* start_beat >= 0 and duration > 0.
RenderTrackCompletes ==
    (/\ call.op = "render_track"
     /\ \A k \in DOMAIN call.track.notes :
           call.track.notes[k].start_beat >= 0 /\ call.track.notes[k].duration > 0)
        => /\ call.result.ok
           /\ call.result.len = SampleIndex(call.total_beats, call.bd)

----------------------------------------------------------------------------
(* The note tables of the three modules, compared.                         *)

\* The symbols built from the 12 note names and an octave 2..6.
NoteSymbols == { NOTE_NAMES[i + 1] \o ToString(o) : i \in 0..11, o \in 2..6 }

\* C11: the note table of the score module has exactly one entry for each
\* of the 12 names in each octave 2..6, 60 in all; the entry of name index
\* i and octave o is 440 * 2^(n/12) with n = (o - 4) * 12 + (i - 9), and A4
\* resolves to 440 Hz.
ScoreTableIsEqualTempered ==
    /\ DOMAIN note_tables["score"] = NoteSymbols
    /\ Cardinality(DOMAIN note_tables["score"]) = 60
    /\ \A i \in 0..11 : \A o \in 2..6 :
          note_tables["score"][NOTE_NAMES[i + 1] \o ToString(o)]
              = [hz |-> [n |-> 440, d |-> 1], semi |-> (o - 4) * 12 + (i - 9)]
    /\ (call.op = "get_frequency" /\ call.module = "score" /\ call.pitch = "A4")
          => /\ call.ok
             /\ call.value = [hz |-> [n |-> 440, d |-> 1], semi |-> 0]
             /\ CentiHz(call.value) = 44000

\* A4 has been resolved from the score module's table.
ScoreA4LookedUp ==
    /\ call.op = "get_frequency"
    /\ call.module = "score"
    /\ call.pitch = "A4"
    /\ call.pitch \in DOMAIN note_tables["score"]
    /\ call.value.semi = 0

\* The semitone nearest to a frequency, counted from A4.
SemitoneOf(f) ==
    CHOOSE k \in -36..36 : \A j \in -36..36 :
        Abs(CentiHz([hz |-> RInt(440), semi |-> k]) - CentiHz(f))
            <= Abs(CentiHz([hz |-> RInt(440), semi |-> j]) - CentiHz(f))

\* C12 as stated: for every symbol built from the 12 note names and an
\* octave 2..6, the resolvers of the three modules give the same semitone
\* counted from A4, and none falls back to 440 Hz for a symbol that another
\* module has in its table.
ResolversAgree ==
    (call.op = "get_frequency" /\ call.pitch \in NoteSymbols)
        => \A m \in Modules :
              /\ SemitoneOf(GetFrequencyOf(m, call.pitch).value)
                    = SemitoneOf(GetFrequencyOf("score", call.pitch).value)
              /\ (call.pitch \in DOMAIN note_tables[m]
                    \/ \A o \in Modules : call.pitch \notin DOMAIN note_tables[o])

----------------------------------------------------------------------------
(* save_wav alone, in every module, on short buffers of samples a          *)
(* normalised mix can hold.                                                *)

\* Samples of [-0.9, 0.9]: the peak, values whose product with 32767 has a
\* fraction below and above one half, a tie, and whole products.
PcmSamples ==
    { RZero, Rat(9, 10), Rat(-9, 10), Rat(2, 3), Rat(-2, 3), Rat(1, 2), Rat(-1, 3),
      Rat(-100, 32767) }

\* The longest buffer exported.
MaxPcmLen == 2

PcmBuffers == UNION { [1..n -> PcmSamples] : n \in 1..MaxPcmLen }

\* composer.save_wav(audio, filename)
SaveBuffer(audio) ==
    /\ call' = [op |-> "save_wav", module |-> program, audio |-> audio,
                pcm |-> save_wav(audio)]
    /\ UNCHANGED <<note_tables, bpm, beat_duration, tracks, program, rng, guiVars>>

NextPcm == \E audio \in PcmBuffers : SaveBuffer(audio)

SpecPcm == InitPitch /\ [][NextPcm]_vars

\* C13 as stated: save_wav stores round(s * 32767), the nearest integer,
\* for each sample s, positive or negative.
ExportIsRounded ==
    call.op = "save_wav"
        => \A i \in DOMAIN call.audio :
              call.pcm[i] = RoundRat(RMul(call.audio[i], RInt(32767)))

\* C13, amended: save_wav stores s * 32767 with its fraction dropped, for
\* positive and negative samples alike: the stored q is not on the other
\* side of zero from s, and |q| <= |s * 32767| < |q| + 1.
ExportIsTruncated ==
    call.op = "save_wav"
        => /\ DOMAIN call.pcm = DOMAIN call.audio
           /\ \A i \in DOMAIN call.audio :
                 /\ call.pcm[i] * call.audio[i].n >= 0
                 /\ Abs(call.pcm[i]) * call.audio[i].d <= Abs(call.audio[i].n) * 32767
                 /\ Abs(call.audio[i].n) * 32767 < (Abs(call.pcm[i]) + 1) * call.audio[i].d

\* 2/3 and -2/3, whose products 21844.67 and -21844.67 are nearer to 21845
\* in size, were stored as 21844 and -21844.
ExportDroppedFraction ==
    /\ call.op = "save_wav"
    /\ \E i \in DOMAIN call.audio :
          call.audio[i] = [n |-> 2, d |-> 3] /\ call.pcm[i] = 21844
    /\ \E i \in DOMAIN call.audio :
          call.audio[i] = [n |-> -2, d |-> 3] /\ call.pcm[i] = -21844

\* C14: for every sample s with |s| <= 0.9, the 16-bit value q that
\* save_wav writes satisfies |q / 32767 - s| <= 1 / 32767.
PcmRoundTrip ==
    call.op = "save_wav"
        => \A i \in DOMAIN call.audio :
              RLe(RAbs(call.audio[i]), [n |-> 9, d |-> 10])
                => /\ call.pcm[i] \in -32768..32767
                   /\ Abs(call.pcm[i] * call.audio[i].d - 32767 * call.audio[i].n)
                         <= call.audio[i].d

\* A buffer was exported in which one sample is stored exactly and another,
\* the peak 0.9, comes back changed.
LossySampleExported ==
    /\ call.op = "save_wav"
    /\ \E i \in DOMAIN call.audio :
          /\ call.audio[i] = [n |-> 9, d |-> 10]
          /\ call.pcm[i] = 29490
          /\ call.pcm[i] * call.audio[i].d # 32767 * call.audio[i].n
    /\ \E i \in DOMAIN call.audio :
          /\ call.audio[i].n # 0
          /\ call.pcm[i] * call.audio[i].d = 32767 * call.audio[i].n

----------------------------------------------------------------------------
(* The drum patterns: auto_generate_all and the editor's auto_generate of  *)
(* the score program, generate_drum_track of the app, at 80, 120 and 160   *)
(* BPM.                                                                    *)

RECURSIVE Flatten(_)
Flatten(ss) == IF ss = <<>> THEN <<>> ELSE Head(ss) \o Flatten(Tail(ss))

\* auto_generate_all, the drum notes of one beat, in the order added
DrumNotesOfBeat_Ballad(style, beat) ==
    (IF beat % 4 = 0 THEN <<NewNote("Kick", beat, 1, Rat(6, 10))>> ELSE <<>>)
    \o (IF beat % 4 = 2 THEN <<NewNote("Snare", beat, 1, Rat(5, 10))>> ELSE <<>>)
    \o (IF beat % 2 = 0 THEN <<NewNote("HiHat", beat, 1, Rat(3, 10))>> ELSE <<>>)

DrumNotesOfBeat(style, beat) ==
    CASE style = "ballad" ->
            (IF beat % 4 = 0 THEN <<NewNote("Kick", beat, 1, Rat(6, 10))>> ELSE <<>>)
            \o (IF beat % 4 = 2 THEN <<NewNote("Snare", beat, 1, Rat(5, 10))>> ELSE <<>>)
            \o (IF beat % 2 = 0 THEN <<NewNote("HiHat", beat, 1, Rat(3, 10))>> ELSE <<>>)
      [] style = "trot" ->
            (IF beat % 2 = 0 THEN <<NewNote("Kick", beat, 1, Rat(9, 10))>> ELSE <<>>)
            \o (IF beat % 2 = 1
                THEN <<NewNote("Snare", beat, 1, Rat(8, 10)),
                       NewNote("HiHat", beat, 1, Rat(6, 10))>>
                ELSE <<>>)
      [] OTHER ->
            (IF beat % 4 = 0 \/ beat % 4 = 2
             THEN <<NewNote("Kick", beat, 1, Rat(8, 10))>> ELSE <<>>)
            \o (IF beat % 4 = 1 \/ beat % 4 = 3
                THEN <<NewNote("Snare", beat, 1, Rat(7, 10))>> ELSE <<>>)
            \o (IF beat % 2 = 0 THEN <<NewNote("HiHat", beat, 1, Rat(5, 10))>> ELSE <<>>)

\* get_third(root) and get_fifth(root) for a root of octave 4
GetThird(letter) ==
    CASE letter = "C" -> "E4" [] letter = "D" -> "F4" [] letter = "E" -> "G4"
      [] letter = "F" -> "A4" [] letter = "G" -> "B4" [] letter = "A" -> "C5"
      [] letter = "B" -> "D5"

GetFifth(letter) ==
    CASE letter = "C" -> "G4" [] letter = "D" -> "A4" [] letter = "E" -> "B4"
      [] letter = "F" -> "C5" [] letter = "G" -> "D5" [] letter = "A" -> "E5"
      [] letter = "B" -> "F5"

\* auto_generate_all, the notes of one bar of the bass, synth and guitar
BarNotes(id, style, bar) ==
    CASE id = "bass" ->
            << NewNote(RootOf(style, bar) \o "3", bar * 4, 1, Rat(9, 10)),
               NewNote(RootOf(style, bar) \o "3", bar * 4 + 2, 1, Rat(7, 10)) >>
      [] id = "synth" ->
            << NewNote(RootOf(style, bar) \o "4", bar * 4, 4, Rat(6, 10)),
               NewNote(GetThird(RootOf(style, bar)), bar * 4, 4, Rat(5, 10)),
               NewNote(GetFifth(RootOf(style, bar)), bar * 4, 4, Rat(5, 10)) >>
      [] id = "guitar" ->
            << NewNote(RootOf(style, bar) \o "4", bar * 4, 1, Rat(7, 10)),
               NewNote(RootOf(style, bar) \o "4", bar * 4 + 2, 1, Rat(7, 10)) >>

\* The notes auto_generate_all gives the track id
GeneratedNotes(id, style, total_beats) ==
    IF id = "drums"
    THEN Flatten([b \in 1..total_beats |-> DrumNotesOfBeat(style, b - 1)])
    ELSE Flatten([b \in 1..(total_beats \div 4) |-> BarNotes(id, style, b - 1)])

\* ScoreEditor.auto_generate on a drum track, the notes of one beat
EditorDrumNotesOfBeat(beat) ==
    (IF beat % 4 = 0 THEN <<NewNote("Kick", beat, 1, Rat(9, 10))>> ELSE <<>>)
    \o (IF beat % 4 = 2 THEN <<NewNote("Snare", beat, 1, Rat(8, 10))>> ELSE <<>>)
    \o (IF beat % 2 = 0 THEN <<NewNote("HiHat", beat, 1, Rat(6, 10))>> ELSE <<>>)

DrumTempos == {80, 120, 160}

\* Two of the radio buttons of the bar count: 4 and 8 bars.
DrumBars == {4, 8}

\* MusicComposerApp.auto_generate_all, with style_var at style and bars_var
\* at bars
AutoGenerateAll(style, bars) ==
    /\ program = "score"
    /\ tracks' = [id \in TrackIdSet |->
                    [tracks[id] EXCEPT !.notes = GeneratedNotes(id, style, bars * 4)]]
    /\ call' = [op |-> "auto_generate_all", style |-> style, bars |-> bars]
    /\ gui' = [gui EXCEPT !.total_beats = bars * 4]
    /\ UNCHANGED <<note_tables, bpm, beat_duration, program, rng, editor, worker, player,
                   files>>

\* ScoreEditor.auto_generate in the editor of a drum track (the melody
\* branch, which draws its notes at random, is for the other tracks)
AutoGenerate(id, total_beats) ==
    /\ program = "score"
    /\ tracks[id].instrument_type = "drums"
    /\ tracks' = [tracks EXCEPT ![id].notes =
                    Flatten([b \in 1..total_beats |-> EditorDrumNotesOfBeat(b - 1)])]
    /\ call' = [op |-> "auto_generate", id |-> id, total_beats |-> total_beats]
    /\ UNCHANGED <<note_tables, bpm, beat_duration, program, rng, guiVars>>

\* composer.generate_drum_track(bars, style) of the app module
GenerateDrumTrack(bars, style) ==
    /\ program = "app"
    /\ call' = [op |-> "generate_drum_track", module |-> "app", style |-> style,
                bars |-> bars, bpm |-> bpm, bd |-> beat_duration,
                result |-> generate_drum_track(bars, style, beat_duration, rng)]
    /\ rng' = call'.result.rng
    /\ UNCHANGED <<note_tables, bpm, beat_duration, tracks, program, guiVars>>

InitDrums ==
    /\ note_tables = InitialTables
    /\ program \in {"score", "app"}
    /\ bpm \in DrumTempos
    /\ beat_duration = Rat(60, bpm)
    /\ tracks = [id \in TrackIdSet |-> NewTrack(id)]
    /\ rng = 0
    /\ call = [op |-> "init"]
    /\ GuiInit

NextDrums ==
    \/ \E b \in DrumTempos : SetBpm(b)
    \/ \E style \in Styles : \E bars \in DrumBars : AutoGenerateAll(style, bars)
    \/ \E id \in TrackIdSet : \E bars \in DrumBars : AutoGenerate(id, bars * 4)
    \/ \E id \in TrackIdSet : \E bars \in DrumBars : RenderTrack(id, bars * 4)
    \/ \E style \in Styles : \E bars \in DrumBars : GenerateDrumTrack(bars, style)

SpecDrums == InitDrums /\ [][NextDrums]_vars

\* The places in a buffer at which a wave of the voice was added.
Onsets(b, voice) ==
    { b.parts[k].start : k \in { j \in DOMAIN b.parts :
                                   b.parts[j].wave.voice = voice /\ b.parts[j].count > 0 } }

\* A drum track of four bars with a kick on the beats 0 and 2 and a snare on
\* the beats 1 and 3 of every bar.
DefaultPatternOfFourBars(track) ==
    /\ track.instrument_type = "drums"
    /\ \A b \in 0..15 :
          /\ (\E k \in DOMAIN track.notes :
                 track.notes[k].pitch = "Kick" /\ track.notes[k].start_beat = b)
                <=> b % 4 \in {0, 2}
          /\ (\E k \in DOMAIN track.notes :
                 track.notes[k].pitch = "Snare" /\ track.notes[k].start_beat = b)
                <=> b % 4 \in {1, 3}
    /\ \A k \in DOMAIN track.notes : track.notes[k].start_beat \in 0..15

\* The calls that render four bars of the default pattern: render_track on
\* such a track of the score, generate_drum_track of the app in its default
\* branch.
DefaultDrumsRendered ==
    \/ /\ call.op = "render_track"
       /\ call.total_beats = 16
       /\ DefaultPatternOfFourBars(call.track)
    \/ /\ call.op = "generate_drum_track"
       /\ call.bars = 4
       /\ call.style \notin {"ballad", "trot"}

\* C15 as stated: four bars of the default pattern hold exactly 4 kick
\* onsets and exactly 4 snare onsets, at 80, 120 and 160 BPM.
FourBarsHoldFourKicks ==
    DefaultDrumsRendered
        => /\ call.result.ok
           /\ Cardinality(Onsets(call.result, "kick")) = 4
           /\ Cardinality(Onsets(call.result, "snare")) = 4

\* C15, amended: four bars of the default pattern hold exactly 8 kick
\* onsets and exactly 8 snare onsets, two of each in every bar, and the
\* counts are the same at 80, 120 and 160 BPM.
FourBarsHoldEightKicks ==
    /\ (call.op = "auto_generate_all" /\ call.bars = 4
            /\ call.style \notin {"ballad", "trot"})
          => /\ DefaultPatternOfFourBars(tracks["drums"])
             /\ Len(SelectSeq(tracks["drums"].notes, LAMBDA n : n.pitch = "Kick")) = 8
             /\ Len(SelectSeq(tracks["drums"].notes, LAMBDA n : n.pitch = "Snare")) = 8
    /\ DefaultDrumsRendered
        => /\ call.bpm \in {80, 120, 160}
           /\ call.result.ok
           /\ Cardinality(Onsets(call.result, "kick")) = 8
           /\ Cardinality(Onsets(call.result, "snare")) = 8
           /\ \A bar \in 0..3 :
                 LET in_bar(x) == x * 4 >= bar * call.result.len
                                  /\ x * 4 < (bar + 1) * call.result.len
                 IN  /\ Cardinality({x \in Onsets(call.result, "kick") : in_bar(x)}) = 2
                     /\ Cardinality({x \in Onsets(call.result, "snare") : in_bar(x)}) = 2

\* The four bars auto_generate_all wrote were rendered at 160 BPM.
DefaultDrumsRenderedAt160 ==
    /\ DefaultDrumsRendered
    /\ call.op = "render_track"
    /\ call.bpm = 160
    /\ call.result.ok
    /\ Len(call.track.notes) = 24
    /\ Cardinality(Onsets(call.result, "kick")) = 8

----------------------------------------------------------------------------
(* The envelope and the square wave, on the oscillator calls of SpecOsc.   *)

\* The arguments _apply_envelope was given by the oscillator of a call
EnvAttack == VoiceAttack(call.wave.voice)

EnvRelease == VoiceRelease(call.wave.voice)

\* envelope[i] of the call
EnvAt(i) == EnvelopeAt(call.module, call.len, EnvAttack, EnvRelease, i)

\* C16 as stated: when attack > 0 and release > 0 are each strictly less
\* than the duration, the envelope multiplier of the first and of the last
\* sample is 0, and so are both output samples.
EnvelopeEndsAtZero ==
    (call.op = "oscillator" /\ call.len > 0
        /\ RLt(RZero, EnvAttack) /\ RLt(EnvAttack, call.wave.duration)
        /\ RLt(RZero, EnvRelease) /\ RLt(EnvRelease, call.wave.duration))
        => /\ call.ok
           /\ EnvAt(0) = [n |-> 0, d |-> 1]
           /\ EnvAt(call.len - 1) = [n |-> 0, d |-> 1]
           /\ WaveAt(call.wave, 0) = 0
           /\ WaveAt(call.wave, call.len - 1) = 0

\* C17 as stated: for a non-empty buffer no longer than the attack ramp or
\* the release ramp, _apply_envelope returns a buffer of the same length
\* without raising, and the ramp is applied, shortened, not skipped.
RampsAreClamped ==
    (call.op = "oscillator" /\ call.len > 0
        /\ (AttackSamples(EnvAttack) >= call.len \/ AttackSamples(EnvRelease) >= call.len))
        => /\ call.ok
           /\ AttackSamples(EnvAttack) >= call.len
                 => RampWritten(call.module, AttackSamples(EnvAttack), call.len)
           /\ AttackSamples(EnvRelease) >= call.len
                 => RampWritten(call.module, AttackSamples(EnvRelease), call.len)
           /\ \E i \in {0, call.len - 1} : EnvAt(i) # [n |-> 1, d |-> 1]

\* The sample indices looked at in a wave of n samples: both ends, the ends
\* of the two ramps, and one index in every thousand or so.
ProbeIndices(n) ==
    { i \in (0..7) \cup ((n - 8)..(n - 1)) \cup (2201..2208) \cup ((n - 4414)..(n - 4407))
             \cup { 1009 * k : k \in 0..((n - 1) \div 1009) } : 0 <= i /\ i < n }

\* C18: every sample square_wave returns lies within
\* [-0.5 * velocity, 0.5 * velocity], after the envelope too, whose
\* multipliers lie in [0, 1].
SquareWaveIsBounded ==
    (call.op = "oscillator" /\ call.wave.voice = "square" /\ call.ok)
        => \A i \in ProbeIndices(call.len) :
              /\ RLe(RZero, EnvAt(i)) /\ RLe(EnvAt(i), RInt(1))
              /\ 2 * call.wave.velocity.d * Abs(RawAt(call.wave, i))
                    <= call.wave.velocity.n * AmpUnit
              /\ 2 * call.wave.velocity.d * Abs(WaveAt(call.wave, i))
                    <= call.wave.velocity.n * AmpUnit

\* A square wave of velocity 0.8 came back with a sample at the bound 0.4, a
\* sample at -0.4 and a sample the attack ramp has made smaller.
SquareWaveAtItsBound ==
    /\ call.op = "oscillator" /\ call.wave.voice = "square" /\ call.ok
    /\ call.wave.velocity = [n |-> 4, d |-> 5]
    /\ \E i \in ProbeIndices(call.len) : WaveAt(call.wave, i) = 40000
    /\ \E i \in ProbeIndices(call.len) : WaveAt(call.wave, i) = -40000
    /\ \E i \in ProbeIndices(call.len) :
          WaveAt(call.wave, i) > 0 /\ WaveAt(call.wave, i) < 40000

----------------------------------------------------------------------------
(* render_track on notes of length 0 and below, and what a render call     *)
(* leaves of its inputs.                                                   *)

\* The track without its notes of length 0 or less.
WithoutEmptyNotes(track) ==
    [track EXCEPT !.notes = SelectSeq(@, LAMBDA note : note.duration > 0)]

\* Every slice of the buffer b is a slice of the buffer c: the same place,
\* the same length, and the same call of the voice.
SlicesKept(b, c) ==
    \A k \in DOMAIN b.parts : \E j \in DOMAIN c.parts :
        /\ c.parts[j].start = b.parts[k].start
        /\ c.parts[j].count = b.parts[k].count
        /\ c.parts[j].wave.voice = b.parts[k].wave.voice
        /\ c.parts[j].wave.freq = b.parts[k].wave.freq
        /\ c.parts[j].wave.len = b.parts[k].wave.len

\* C19 as stated: render_track skips a note of duration <= 0 without
\* aborting: for a track that holds such a note, and whose other notes end
\* inside the buffer, it returns the full-length buffer with the
\* contributions of all the other notes.
EmptyNoteIsSkipped ==
    (/\ call.op = "render_track"
     /\ \E k \in DOMAIN call.track.notes : call.track.notes[k].duration <= 0
     /\ \A k \in DOMAIN call.track.notes :
           /\ call.track.notes[k].start_beat >= 0
           /\ call.track.notes[k].duration > 0
                 => call.track.notes[k].start_beat + call.track.notes[k].duration
                        <= call.total_beats)
        => /\ call.result.ok
           /\ call.result.len = SampleIndex(call.total_beats, call.bd)
           /\ SlicesKept(render_track(WithoutEmptyNotes(call.track), call.total_beats,
                                      call.bd, 0),
                         call.result)

\* C20: render_track and compose_from_tracks leave every track as it was,
\* its list of notes, its muted flag, its volume and the fields of every
\* note; the tracks the call was given are the tracks of the score; and
\* the buffer returned is made by this call, from its arguments alone.
RenderLeavesItsInputs ==
    [][ (call'.op \in {"render_track", "compose_from_tracks"} /\ call' # call)
          => /\ tracks' = tracks
             /\ call'.op = "render_track"
                   => /\ call'.track = tracks[call'.track.instrument_type]
                      /\ call'.result = render_track(call'.track, call'.total_beats,
                                                      call'.bd, rng)
                      /\ Len(call'.result.parts) <= Len(call'.track.notes)
             /\ call'.op = "compose_from_tracks"
                   => /\ call'.tracks \in {TrackList, <<>>}
                      /\ call'.result = compose_from_tracks(call'.tracks, call'.total_beats,
                                                             call'.bd, rng)
                      /\ Len(call'.result.inputs) <= Len(call'.tracks) ]_vars

\* A track of two notes has been rendered into two slices, and the score
\* still holds the track with its two notes.
TrackRenderedAndKept ==
    /\ call.op = "render_track"
    /\ call.result.ok
    /\ Len(call.track.notes) = 2
    /\ tracks[call.track.instrument_type] = call.track
    /\ Len(call.result.parts) = 2

----------------------------------------------------------------------------
(* The renderer on tracks the editor cannot make: a Track whose            *)
(* instrument_type has no branch in render_track, drum notes of every      *)
(* name, and hi-hat and snare notes, whose noise is drawn from numpy's     *)
(* process-wide generator.                                                 *)

\* Track(name, instrument_type) of the four tracks: the second is a piano
KitType(id) == IF id = "guitar" THEN "piano" ELSE id

KitMenu(id) ==
    CASE id = "synth" -> { NewNote("A4", 0, 1, Rat(8, 10)) }
      [] id = "guitar" -> { NewNote("A4", 0, 1, Rat(8, 10)), NewNote("C4", 1, 1, Rat(1, 2)) }
      [] id = "bass" -> {}
      [] id = "drums" ->
            { NewNote("Kick", 0, 1, Rat(8, 10)), NewNote("HiHat", 0, 1, Rat(6, 10)),
              NewNote("Snare", 1, 1, Rat(8, 10)), NewNote("Tom", 0, 1, Rat(8, 10)) }

InitKit ==
    /\ note_tables = InitialTables
    /\ program = "score"
    /\ bpm \in TinyTempos
    /\ beat_duration = Rat(60, bpm)
    /\ tracks = [id \in TrackIdSet |-> NewTrack(KitType(id))]
    /\ rng = 0
    /\ call = [op |-> "init"]
    /\ GuiInit

NextKit ==
    \/ \E b \in TinyTempos : SetBpm(b)
    \/ \E id \in TrackIdSet : \E note \in KitMenu(id) : AddNote(id, note)
    \/ \E id \in TrackIdSet : \E n \in BeatCounts : RenderTrack(id, n)

SpecKit == InitKit /\ [][NextKit]_vars

\* C22: a track rendered twice in a row, with the same notes, the same
\* total_beats and the same tempo, gives the same buffer both times, also
\* when the track holds snare or hi-hat notes.
RendersRepeat ==
    [][ ( /\ call.op = "render_track"
          /\ call'.op = "render_track"
          /\ call'.track = call.track
          /\ call'.total_beats = call.total_beats
          /\ call'.bd = call.bd
          /\ call.result.ok
          /\ call'.result.ok )
          => Samples(call'.result) = Samples(call.result) ]_vars

\* The notes the claim says are passed over: every note of a track of an
\* instrument type other than the four, and on a drums track every note
\* that is not a Kick, a Snare or a HiHat.
KeptNotes(track) ==
    SelectSeq(track.notes,
              LAMBDA note : /\ track.instrument_type \in {"synth", "guitar", "bass", "drums"}
                            /\ track.instrument_type = "drums"
                                  => note.pitch \in {"Kick", "Snare", "HiHat"})

\* C24: render_track passes over a drums note of an unknown name and every
\* note of a track of an unknown instrument type: the call raises nothing,
\* the buffer is the buffer of the track without those notes, and every
\* other note of the track has its slice in it, in the order of the notes.
UnknownNotesAreSkipped ==
    call.op = "render_track"
        => LET kept == KeptNotes(call.track)
               r == call.result
           IN  /\ r.ok
               /\ r.len = SampleIndex(call.total_beats, call.bd)
               /\ Len(r.parts) = Len(kept)
               /\ \A k \in 1..Len(kept) :
                     /\ r.parts[k].start = SampleIndex(kept[k].start_beat, call.bd)
                     /\ r.parts[k].wave.velocity = kept[k].velocity
                     /\ r.parts[k].wave.voice
                           = CASE call.track.instrument_type = "synth" -> "pad"
                               [] call.track.instrument_type = "guitar" -> "clean"
                               [] call.track.instrument_type = "bass" -> "finger"
                               [] kept[k].pitch = "Kick" -> "kick"
                               [] kept[k].pitch = "Snare" -> "snare"
                               [] kept[k].pitch = "HiHat" -> "hihat"
               /\ call.track.instrument_type = "piano" => r.parts = <<>>

\* A drums track of a Tom and a Kick has been rendered: one slice, the kick.
TomSkippedKickRendered ==
    /\ call.op = "render_track"
    /\ call.track.instrument_type = "drums"
    /\ Len(call.track.notes) = 2
    /\ call.track.notes[1].pitch = "Tom"
    /\ call.track.notes[2].pitch = "Kick"
    /\ call.result.ok
    /\ Len(call.result.parts) = 1
    /\ call.result.parts[1].wave.voice = "kick"

\* C23 as stated: for a buffer of any length and any attack and release,
\* also when the two ramps together are longer than the buffer, every
\* multiplier of the envelope lies in [0, 1] and both ramps are applied:
\* the first multiplier is the first value of the attack ramp and the last
\* multiplier is the last value of the release ramp.
EnvelopeHoldsBothRamps ==
    (call.op = "oscillator" /\ call.len > 0 /\ call.module \in {"score", "app"}
        /\ call.wave.voice \in EnvelopedVoices)
        => /\ call.ok
           /\ \A i \in ProbeIndices(call.len) :
                 RLe(RZero, EnvAt(i)) /\ RLe(EnvAt(i), RInt(1))
           /\ RampWritten(call.module, AttackSamples(EnvAttack), call.len)
           /\ RampWritten(call.module, AttackSamples(EnvRelease), call.len)
           /\ EnvAt(0) = Linspace(0, 1, AttackSamples(EnvAttack), 0)
           /\ EnvAt(call.len - 1)
                 = Linspace(1, 0, AttackSamples(EnvRelease), AttackSamples(EnvRelease) - 1)

----------------------------------------------------------------------------
(* The windows of the two programs with a window, MusicComposerApp of the  *)
(* score and of the app module: the handlers of the main thread, the       *)
(* compose thread step by step, the playback threads, and the callbacks    *)
(* the threads post to the main loop with root.after.  The audio of a      *)
(* compose thread is kept as the notes it rendered.                        *)

\* call after a handler or a step of a thread that is no call of the engine
Window == [op |-> "window"]

\* The style and bar radio buttons the model presses
GuiStyles == {"electronic", "rock"}

GuiBars == {4, 8}

\* STYLE_BPM.get(style, 120)
STYLE_BPM(style) ==
    CASE style = "electronic" -> 128
      [] style = "rock" -> 120
      [] style = "pop" -> 110
      [] style = "jazz" -> 95
      [] style = "ambient" -> 70
      [] style = "ballad" -> 72
      [] style = "trot" -> 115
      [] OTHER -> 120

\* f"composed_{style}_custom.wav" and f"composed_{style}.wav"
FileName(style) ==
    IF program = "score" THEN <<"composed", style, "custom.wav">>
    ELSE <<"composed", style, ".wav">>

\* No modal window holds the input: no ScoreEditor (grab_set, wait_window)
\* and no message box
NoModal == ~editor.open /\ gui.dialog = "none"

\* What compose_music collects before it starts the thread: active_tracks
\* of the score module, the ticked instruments of the app module.
Selection ==
    IF program = "score"
    THEN SelectSeq(TrackIds, LAMBDA id : id \in gui.track_vars /\ tracks[id].notes # <<>>)
    ELSE SelectSeq(TrackIds, LAMBDA id : id \in gui.track_vars)

\* style_var set by a radio button, and on_style_change
SelectStyle(style) ==
    /\ program \in {"score", "app"}
    /\ NoModal
    /\ gui.style_var # style
    /\ gui' = [gui EXCEPT !.style_var = style, !.bpm_var = STYLE_BPM(style)]
    /\ call' = Window
    /\ UNCHANGED <<note_tables, bpm, beat_duration, tracks, program, rng, editor, worker,
                   player, files>>

\* bars_var set by a radio button, and on_bars_change of the score module
SelectBars(bars) ==
    /\ program \in {"score", "app"}
    /\ NoModal
    /\ gui.bars_var # bars
    /\ gui' = [gui EXCEPT !.bars_var = bars,
                          !.total_beats = IF program = "score" THEN bars * 4 ELSE @]
    /\ call' = Window
    /\ UNCHANGED <<note_tables, bpm, beat_duration, tracks, program, rng, editor, worker,
                   player, files>>

\* The checkbox of an instrument ticked or unticked
ToggleTrack(id) ==
    /\ program \in {"score", "app"}
    /\ NoModal
    /\ gui' = [gui EXCEPT !.track_vars = IF id \in @ THEN @ \ {id} ELSE @ \cup {id}]
    /\ call' = Window
    /\ UNCHANGED <<note_tables, bpm, beat_duration, tracks, program, rng, editor, worker,
                   player, files>>

\* The Auto Generate All button
PressAutoGenerateAll ==
    /\ NoModal
    /\ AutoGenerateAll(gui.style_var, gui.bars_var)

\* compose_music: "if self.is_composing: return"
ComposeBusy ==
    /\ call' = [op |-> "compose_music", outcome |-> "busy"]
    /\ UNCHANGED <<gui, worker>>

\* compose_music: nothing to compose, the warning is shown
ComposeWarn ==
    /\ gui' = [gui EXCEPT !.dialog = "warning"]
    /\ call' = [op |-> "compose_music", outcome |-> "warning"]
    /\ UNCHANGED worker

\* compose_music: the flag set, the buttons disabled, the thread started.
\* active holds the Track objects themselves; pressed is what their notes
\* are at this moment.
ComposeStart ==
    /\ gui' = [gui EXCEPT !.is_composing = TRUE, !.compose_btn = "disabled",
                          !.play_btn = "disabled"]
    /\ worker' = [NoWorker EXCEPT !.pc = "started", !.active = Selection, !.k = 1,
                                  !.pressed = [k \in DOMAIN Selection |->
                                                  tracks[Selection[k]].notes]]
    /\ call' = [op |-> "compose_music", outcome |-> "started"]

ComposeMusic_Unguarded ==
    /\ program \in {"score", "app"}
    /\ NoModal
    /\ IF Selection = <<>> THEN ComposeWarn ELSE ComposeStart
    /\ UNCHANGED <<note_tables, bpm, beat_duration, tracks, program, rng, editor, player,
                   files>>

\* MusicComposerApp.compose_music, whenever it is called
ComposeMusic ==
    /\ program \in {"score", "app"}
    /\ NoModal
    /\ IF gui.is_composing THEN ComposeBusy
       ELSE IF Selection = <<>> THEN ComposeWarn
       ELSE ComposeStart
    /\ UNCHANGED <<note_tables, bpm, beat_duration, tracks, program, rng, editor, player,
                   files>>

\* compose_thread: set_bpm(bpm_var.get()), and the Tk variables read before
\* the composer is called
WorkerBegin ==
    /\ worker.pc = "started"
    /\ bpm' = gui.bpm_var
    /\ beat_duration' = Rat(60, gui.bpm_var)
    /\ gui' = [gui EXCEPT !.total_beats = IF program = "score" THEN gui.bars_var * 4 ELSE @]
    /\ worker' = [worker EXCEPT !.pc = "compose", !.total_beats = gui.bars_var * 4,
                                !.style = IF program = "app" THEN gui.style_var ELSE @]
    /\ call' = Window
    /\ UNCHANGED <<note_tables, tracks, program, rng, editor, player, files>>

\* One pass of the loop of compose_from_tracks: the track is passed over,
\* or render_track is called; whether it returned, and the generator after
RenderOutcome(track, total_beats, bd, pos) ==
    IF Skipped(track) THEN [ok |-> TRUE, rng |-> pos, notes |-> <<>>]
    ELSE [ok |-> render_track(track, total_beats, bd, pos).ok,
          rng |-> render_track(track, total_beats, bd, pos).rng,
          notes |-> track.notes]

\* The thread after the pass: the notes it rendered are in its mix, or the
\* exception of render_track ends the try block
AfterRender(w, track, r) ==
    IF r.ok THEN [w EXCEPT !.k = @ + 1, !.rendered = Append(@, r.notes)]
    ELSE [w EXCEPT !.pc = "raised", !.error = "compose"]

\* compose_thread: one pass of the loop of compose_from_tracks, on the
\* notes the Track object holds now
WorkerRenderTrack ==
    /\ program = "score"
    /\ worker.pc = "compose"
    /\ worker.k <= Len(worker.active)
    /\ worker' = AfterRender(worker, tracks[worker.active[worker.k]],
                             RenderOutcome(tracks[worker.active[worker.k]],
                                           worker.total_beats, beat_duration, rng))
    /\ rng' = RenderOutcome(tracks[worker.active[worker.k]], worker.total_beats,
                            beat_duration, rng).rng
    /\ call' = Window
    /\ UNCHANGED <<note_tables, bpm, beat_duration, tracks, program, gui, editor,
                   player, files>>

\* compose_thread: the end of compose_from_tracks, then style_var read and
\* current_file set
WorkerMixDown ==
    /\ program = "score"
    /\ worker.pc = "compose"
    /\ worker.k > Len(worker.active)
    /\ worker' = [worker EXCEPT !.pc = "save", !.music = "mix", !.style = gui.style_var,
                                !.file = FileName(gui.style_var)]
    /\ gui' = [gui EXCEPT !.current_file = FileName(gui.style_var)]
    /\ call' = Window
    /\ UNCHANGED <<note_tables, bpm, beat_duration, tracks, program, rng, editor, player,
                   files>>

\* composer.compose of the app module at the tempos of the slider: whether
\* it returned, and the generator after the drum track, the one track that
\* draws from it
ComposeOutcome(w, bd, pos) ==
    IF "drums" \in { w.active[k] : k \in DOMAIN w.active }
    THEN [ok |-> generate_drum_track(w.total_beats \div 4, w.style, bd, pos).ok,
          rng |-> generate_drum_track(w.total_beats \div 4, w.style, bd, pos).rng]
    ELSE [ok |-> TRUE, rng |-> pos]

\* The thread of the app module after compose returned or raised
AfterCompose(w, ok) ==
    IF ok THEN [w EXCEPT !.pc = "save", !.music = "mix", !.file = FileName(w.style)]
    ELSE [w EXCEPT !.pc = "raised", !.error = "compose"]

\* compose_thread of the app module: composer.compose(style, instruments,
\* bars), then current_file set
WorkerCompose ==
    /\ program = "app"
    /\ worker.pc = "compose"
    /\ worker' = AfterCompose(worker, ComposeOutcome(worker, beat_duration, rng).ok)
    /\ gui' = [gui EXCEPT !.current_file = IF worker'.pc = "save" THEN FileName(worker.style)
                                           ELSE @]
    /\ rng' = ComposeOutcome(worker, beat_duration, rng).rng
    /\ call' = Window
    /\ UNCHANGED <<note_tables, bpm, beat_duration, tracks, program, editor, player,
                   files>>

\* save_wav: wavfile.write opens the file, which creates or truncates it,
\* or fails to (a read-only directory, a locked file)
WorkerOpenFile(success) ==
    /\ worker.pc = "save"
    /\ worker' = IF success THEN [worker EXCEPT !.pc = "writing"]
                 ELSE [worker EXCEPT !.pc = "raised", !.error = "save_wav"]
    /\ files' = IF success
                THEN [exists |-> files.exists \cup {worker.file},
                      writing |-> files.writing \cup {worker.file}]
                ELSE files
    /\ call' = Window
    /\ UNCHANGED <<note_tables, bpm, beat_duration, tracks, program, rng, gui, editor,
                   player>>

\* save_wav: the samples written and the file closed
WorkerCloseFile ==
    /\ worker.pc = "writing"
    /\ worker' = [worker EXCEPT !.pc = "saved"]
    /\ files' = [files EXCEPT !.writing = @ \ {worker.file}]
    /\ call' = Window
    /\ UNCHANGED <<note_tables, bpm, beat_duration, tracks, program, rng, gui, editor,
                   player>>

\* compose_thread: root.after(0, ...).  After save_wav the thread posts
\* compose_complete and returns; in the except clause it posts a lambda
\* that reads the exception variable e.
WorkerPost ==
    /\ worker.pc \in {"saved", "raised"}
    /\ gui' = [gui EXCEPT !.after =
                  Append(@, [callback |-> IF worker.pc = "saved" THEN "compose_complete"
                                          ELSE "compose_error",
                             error |-> worker.error])]
    /\ worker' = IF worker.pc = "saved" THEN NoWorker ELSE [worker EXCEPT !.pc = "except"]
    /\ call' = Window
    /\ UNCHANGED <<note_tables, bpm, beat_duration, tracks, program, rng, editor, player,
                   files>>

\* compose_thread: the end of the except clause, where Python unbinds e,
\* and of the thread, whose locals go with it
WorkerReturn ==
    /\ worker.pc = "except"
    /\ worker' = NoWorker
    /\ call' = Window
    /\ UNCHANGED <<note_tables, bpm, beat_duration, tracks, program, rng, gui, editor,
                   player, files>>

\* MusicComposerApp.compose_complete
compose_complete(g) ==
    [g EXCEPT !.is_composing = FALSE, !.compose_btn = "normal", !.play_btn = "normal",
              !.stop_btn = "normal"]

\* MusicComposerApp.compose_error; the message box shows the error, which
\* is "compose" or "save_wav" for the call that raised
compose_error(g, error) ==
    [g EXCEPT !.is_composing = FALSE, !.compose_btn = "normal", !.dialog = error]

\* The main loop runs the callback posted first.  The lambda of the except
\* clause calls compose_error(str(e)) while the thread is still inside the
\* clause; once the thread has left it, e is unbound, the lambda raises
\* NameError and compose_error is not called.
RunCallback ==
    /\ gui.after # <<>>
    /\ gui' = [(CASE Head(gui.after).callback = "compose_complete" -> compose_complete(gui)
                  [] Head(gui.after).callback = "compose_error" /\ worker.pc = "except" ->
                        compose_error(gui, Head(gui.after).error)
                  [] OTHER -> gui)
               EXCEPT !.after = Tail(gui.after)]
    /\ call' = Window
    /\ UNCHANGED <<note_tables, bpm, beat_duration, tracks, program, rng, editor, worker,
                   player, files>>

\* The message box of a warning or an error closed
DismissDialog ==
    /\ gui.dialog # "none"
    /\ gui' = [gui EXCEPT !.dialog = "none"]
    /\ call' = Window
    /\ UNCHANGED <<note_tables, bpm, beat_duration, tracks, program, rng, editor, worker,
                   player, files>>

\* The Play button: play_music starts a thread that plays current_file.
\* PlaySound plays one sound at a time: a sound still playing is stopped.
PlayMusic ==
    /\ program \in {"score", "app"}
    /\ NoModal
    /\ gui.play_btn = "normal"
    /\ gui.current_file # NoFile
    /\ gui.current_file \in files.exists
    /\ player' = gui.current_file
    /\ call' = Window
    /\ UNCHANGED <<note_tables, bpm, beat_duration, tracks, program, rng, gui, editor,
                   worker, files>>

\* The Stop button: PlaySound(None, SND_PURGE) ends the sounds playing
StopMusic ==
    /\ program \in {"score", "app"}
    /\ NoModal
    /\ gui.stop_btn = "normal"
    /\ player # NoFile
    /\ player' = NoFile
    /\ call' = Window
    /\ UNCHANGED <<note_tables, bpm, beat_duration, tracks, program, rng, gui, editor,
                   worker, files>>

\* The playback thread reaches the end of its file
PlaybackEnds ==
    /\ player # NoFile
    /\ player' = NoFile
    /\ call' = Window
    /\ UNCHANGED <<note_tables, bpm, beat_duration, tracks, program, rng, gui, editor,
                   worker, files>>

\* The checkboxes the model ticks and unticks: of the four tracks of the
\* score, the drums; of the app, whose compose_music asks for one
\* instrument at least, all four, unticked in the order of the instruments
\* and ticked again in the reverse order.
ToggleMenu ==
    IF program = "score" THEN {"drums"}
    ELSE { TrackIds[k] : k \in { i \in DOMAIN TrackIds :
                                   /\ \A j \in 1..(i - 1) : TrackIds[j] \notin gui.track_vars
                                   /\ \A j \in (i + 1)..Len(TrackIds) :
                                         TrackIds[j] \in gui.track_vars } }

InitGui ==
    /\ note_tables = InitialTables
    /\ program \in {"score", "app"}
    /\ bpm = 120
    /\ beat_duration = Rat(60, bpm)
    /\ tracks = [id \in TrackIdSet |-> NewTrack(id)]
    /\ rng = 0
    /\ call = [op |-> "init"]
    /\ GuiInit

\* The steps of the compose thread
WorkerStep ==
    \/ WorkerBegin
    \/ WorkerRenderTrack
    \/ WorkerMixDown
    \/ WorkerCompose
    \/ \E success \in BOOLEAN : WorkerOpenFile(success)
    \/ WorkerCloseFile
    \/ WorkerPost
    \/ WorkerReturn

NextCompose ==
    \/ \E id \in ToggleMenu : ToggleTrack(id)
    \/ PressAutoGenerateAll
    \/ ComposeMusic
    \/ WorkerStep
    \/ RunCallback
    \/ DismissDialog
    \/ PlayMusic
    \/ StopMusic
    \/ PlaybackEnds

SpecCompose == InitGui /\ [][NextCompose]_vars

\* The threads run.  The main loop runs the callbacks posted to it, and the
\* compose thread takes its next step: weak fairness of WorkerStep, written
\* with its enabling condition, which is that the thread exists.
WorkerRuns == []<>(worker.pc = "none") \/ []<><<WorkerStep>>_vars

SpecComposeLive == SpecCompose /\ WorkerRuns /\ WF_vars(RunCallback)

\* C21 as stated: when the file write of save_wav fails, the mix the thread
\* computed is still there after the failure has been reported.
MixKeptAfterFailedSave ==
    gui.dialog = "save_wav" => worker.music = "mix"

\* C26 as stated: whenever compose_music has started a thread, is_composing
\* is False again and the Compose button enabled again some time later.
ComposingEnds ==
    gui.is_composing ~> (~gui.is_composing /\ gui.compose_btn = "normal")

\* A compose thread that has not yet posted its callback: all that is left
\* to a thread after root.after is to return.
AtWork == worker.pc \notin {"none", "except"}

\* C27: a compose thread is at work only while is_composing is True, and a
\* call of compose_music does one of three things: with is_composing True
\* it starts no thread and changes nothing; with nothing selected it shows
\* the warning, starts no thread and leaves is_composing False; otherwise
\* it starts the thread, when no other is at work, and sets is_composing.
OneComposeThread ==
    /\ [](AtWork => gui.is_composing /\ gui.compose_btn = "disabled")
    /\ [][ ComposeMusic
             => /\ gui.is_composing
                   => UNCHANGED <<note_tables, bpm, beat_duration, tracks, program, rng,
                                  guiVars>>
                /\ (~gui.is_composing /\ Selection = <<>>)
                   => /\ worker' = worker
                      /\ ~gui'.is_composing
                      /\ gui'.dialog = "warning"
                /\ (~gui.is_composing /\ Selection # <<>>)
                   => /\ ~AtWork
                      /\ worker'.pc = "started"
                      /\ gui'.is_composing ]_vars

\* compose_music has been called while a compose thread was at work, and
\* has returned at once.
ComposeCalledWhileBusy ==
    /\ call.op = "compose_music"
    /\ call.outcome = "busy"
    /\ worker.pc \in {"compose", "save", "writing"}
    /\ gui.is_composing

\* C28 as stated: the compose thread never has a file open for writing that
\* PlaySound is playing.
NoWriteWhilePlaying == \A f \in files.writing : player # f

----------------------------------------------------------------------------
(* The ScoreEditor window.  The selected note is kept as its place in      *)
(* track.notes: 0 for None, Detached for a note that has been removed from *)
(* the track while it was held.  button is the left mouse button: a drag   *)
(* comes between a press and a release.                                    *)

MaxPlaced == 3      \* notes a track holds at most when a click adds one

Detached == 0 - 1

\* The cells of the grid the mouse is taken to; a pointer right of the grid
\* or left of it gives a beat on_drag clamps.
ClickBeats == {0, 1, 2}

DragBeats == {0 - 1, 0, 1, 2, 99}

\* two rows of get_notes_list()
ClickPitches(id) == IF id = "drums" THEN {"Kick", "Snare"} ELSE {"C4", "E4"}

\* Track.get_note_at: the place of the first note of the pitch that covers
\* the beat, 0 for None
RECURSIVE NoteAtFrom(_, _, _, _)
NoteAtFrom(notes, k, pitch, beat) ==
    IF k > Len(notes) THEN 0
    ELSE IF /\ notes[k].pitch = pitch
            /\ notes[k].start_beat <= beat
            /\ beat < notes[k].start_beat + notes[k].duration
         THEN k
         ELSE NoteAtFrom(notes, k + 1, pitch, beat)

get_note_at(track, pitch, beat) == NoteAtFrom(track.notes, 1, pitch, beat)

\* Track.remove_note of the note at place k
RemoveAt(notes, k) == SubSeq(notes, 1, k - 1) \o SubSeq(notes, k + 1, Len(notes))

\* MusicComposerApp.open_score_editor up to wait_window
OpenScoreEditor(id) ==
    /\ program = "score"
    /\ NoModal
    /\ gui' = [gui EXCEPT !.total_beats = gui.bars_var * 4]
    /\ editor' = [NoEditor EXCEPT !.open = TRUE, !.track = id,
                                  !.total_beats = gui.bars_var * 4]
    /\ call' = Window
    /\ UNCHANGED <<note_tables, bpm, beat_duration, tracks, program, rng, worker,
                   player, files>>

\* ScoreEditor.on_click on the cell of the pitch and the beat
EditorClick(pitch, beat) ==
    /\ editor.open
    /\ editor.button = "up"
    /\ beat >= 0 /\ beat < editor.total_beats
    /\ IF get_note_at(tracks[editor.track], pitch, beat) # 0
       THEN /\ editor' = [editor EXCEPT !.button = "down", !.is_dragging = TRUE,
                                        !.selected = get_note_at(tracks[editor.track],
                                                                 pitch, beat)]
            /\ UNCHANGED tracks
       ELSE /\ Len(tracks[editor.track].notes) < MaxPlaced
            /\ tracks' = [tracks EXCEPT ![editor.track].notes =
                            Append(@, NewNote(pitch, beat, 1, Rat(8, 10)))]
            /\ editor' = [editor EXCEPT !.button = "down"]
    /\ call' = Window
    /\ UNCHANGED <<note_tables, bpm, beat_duration, program, rng, gui, worker, player,
                   files>>

\* ScoreEditor.on_drag with the pointer over the beat
EditorDrag(beat) ==
    /\ editor.open
    /\ editor.button = "down"
    /\ editor.is_dragging
    /\ editor.selected # 0
    /\ editor.selected # Detached
    /\ Max(0, Min(beat, editor.total_beats - 1))
          # tracks[editor.track].notes[editor.selected].start_beat
    /\ tracks' = [tracks EXCEPT ![editor.track].notes[editor.selected].start_beat =
                    Max(0, Min(beat, editor.total_beats - 1))]
    /\ call' = Window
    /\ UNCHANGED <<note_tables, bpm, beat_duration, program, rng, gui, editor, worker,
                   player, files>>

\* ScoreEditor.on_release
EditorRelease ==
    /\ editor.open
    /\ editor.button = "down"
    /\ editor' = [editor EXCEPT !.button = "up", !.is_dragging = FALSE, !.selected = 0]
    /\ call' = Window
    /\ UNCHANGED <<note_tables, bpm, beat_duration, tracks, program, rng, gui, worker,
                   player, files>>

\* ScoreEditor.on_right_click on a cell that a note covers
EditorRightClick(pitch, beat) ==
    /\ editor.open
    /\ get_note_at(tracks[editor.track], pitch, beat) # 0
    /\ tracks' = [tracks EXCEPT ![editor.track].notes =
                    RemoveAt(@, get_note_at(tracks[editor.track], pitch, beat))]
    /\ editor' = [editor EXCEPT !.selected =
                    IF @ = get_note_at(tracks[editor.track], pitch, beat) THEN Detached
                    ELSE IF @ > get_note_at(tracks[editor.track], pitch, beat) THEN @ - 1
                    ELSE @]
    /\ call' = Window
    /\ UNCHANGED <<note_tables, bpm, beat_duration, program, rng, gui, worker, player,
                   files>>

\* ScoreEditor.clear_all, answered with yes
EditorClearAll ==
    /\ editor.open
    /\ editor.button = "up"
    /\ tracks[editor.track].notes # <<>>
    /\ tracks' = [tracks EXCEPT ![editor.track].notes = <<>>]
    /\ call' = Window
    /\ UNCHANGED <<note_tables, bpm, beat_duration, program, rng, gui, editor, worker,
                   player, files>>

\* ScoreEditor.apply_and_close, and the end of open_score_editor
ApplyAndClose ==
    /\ editor.open
    /\ editor.button = "up"
    /\ editor' = NoEditor
    /\ call' = Window
    /\ UNCHANGED <<note_tables, bpm, beat_duration, tracks, program, rng, gui, worker,
                   player, files>>

\* The editor alone, opened on the synthesizer track
InitEditor ==
    /\ InitGui
    /\ program = "score"

NextEditor ==
    \/ OpenScoreEditor("synth")
    \/ \E pitch \in ClickPitches(editor.track) : \E beat \in ClickBeats :
          EditorClick(pitch, beat)
    \/ \E beat \in DragBeats : EditorDrag(beat)
    \/ EditorRelease
    \/ \E pitch \in ClickPitches(editor.track) : \E beat \in ClickBeats \cup {31} :
          EditorRightClick(pitch, beat)
    \/ EditorClearAll
    \/ ApplyAndClose

SpecEditor == InitEditor /\ [][NextEditor]_vars

\* Two notes of one pitch of the track cover one beat.
SharedCell(track) ==
    \E i, j \in DOMAIN track.notes :
        /\ i < j
        /\ track.notes[i].pitch = track.notes[j].pitch
        /\ track.notes[i].start_beat < track.notes[j].start_beat + track.notes[j].duration
        /\ track.notes[j].start_beat < track.notes[i].start_beat + track.notes[i].duration

\* C30 as stated: from an empty track, whatever is clicked, dragged,
\* released and right-clicked, no two notes of one pitch cover one beat; a
\* left click on a covered cell selects the note that covers it and adds
\* none; a left click on an uncovered cell appends one note of duration 1
\* at that beat.
OneNotePerCell ==
    /\ [](\A id \in TrackIdSet : ~SharedCell(tracks[id]))
    /\ [][ \A pitch \in {"C4", "E4", "Kick", "Snare"} : \A beat \in ClickBeats :
              EditorClick(pitch, beat)
                 => IF get_note_at(tracks[editor.track], pitch, beat) # 0
                    THEN /\ tracks' = tracks
                         /\ editor'.selected = get_note_at(tracks[editor.track], pitch, beat)
                    ELSE tracks'[editor.track].notes
                            = Append(tracks[editor.track].notes,
                                     NewNote(pitch, beat, 1, Rat(8, 10))) ]_vars

----------------------------------------------------------------------------
(* The score program with its editor and its compose thread: what the      *)
(* thread renders of tracks that the window goes on changing.              *)

NextScore ==
    \/ SelectBars(4)
    \/ PressAutoGenerateAll
    \/ OpenScoreEditor("drums")
    \/ EditorRightClick("Kick", 0)
    \/ ApplyAndClose
    \/ ComposeMusic
    \/ WorkerBegin
    \/ WorkerRenderTrack
    \/ WorkerMixDown
    \/ WorkerOpenFile(TRUE)
    \/ WorkerCloseFile
    \/ WorkerPost
    \/ RunCallback
    \/ DismissDialog

SpecScore == InitEditor /\ [][NextScore]_vars

\* The compose thread is between its start and the end of
\* compose_from_tracks.
Rendering == worker.pc \in {"started", "compose"}

\* C25 as stated: while the compose thread is rendering, no step changes
\* the notes of a track it was handed, and what it has rendered of a track
\* is the notes the track had when Compose was pressed.
NotesFrozenWhileRendering ==
    /\ [][ Rendering => \A k \in DOMAIN worker.active :
                            tracks'[worker.active[k]].notes = tracks[worker.active[k]].notes ]_vars
    /\ [](\A k \in DOMAIN worker.rendered : worker.rendered[k] = worker.pressed[k])

\* C29 as stated: when the thread calls compose_from_tracks, every note of
\* every track it hands over starts inside the rendered length.
HandedNotesStartInside ==
    (worker.pc = "compose" /\ worker.k = 1)
       => \A k \in DOMAIN worker.active :
             \A i \in DOMAIN tracks[worker.active[k]].notes :
                /\ 0 <= tracks[worker.active[k]].notes[i].start_beat
                /\ tracks[worker.active[k]].notes[i].start_beat < worker.total_beats

====
